---- MODULE Spec2Model ----
(***************************************************************************)
(* Model of the Loom transcript scraper: the identifier extractor and the  *)
(* whitespace normalizer (extractor/utils.py), the multi-strategy          *)
(* discovery client with its retry policy (extractor/loom_client.py) and   *)
(* the batch driver (main.py).                                             *)
(*                                                                         *)
(* Text is a sequence of one-character strings, so that every threshold,   *)
(* trim and search of the code is computed character by character.         *)
(***************************************************************************)
EXTENDS Integers, Sequences, FiniteSets, TLC

(***************************************************************************)
(* Characters and generic string helpers (Python str semantics).           *)
(***************************************************************************)
LF == "\n"
CR == "\r"
TAB == "\t"
SP == " "
QUOTE == "\""
APOS == "'"
BACKSLASH == "\\"

\* str.strip() and str.isspace(): the whitespace characters in play
IsSpace(c) == c \in {SP, TAB, LF, CR}

HexDigits == {"0","1","2","3","4","5","6","7","8","9","a","b","c","d","e","f"}
Digits == {"0","1","2","3","4","5","6","7","8","9"}
LowerLetters ==
  {"a","b","c","d","e","f","g","h","i","j","k","l","m",
   "n","o","p","q","r","s","t","u","v","w","x","y","z"}
UpperToLower ==
  [c \in {"A","B","C","D","E","F","G","H","I","J","K","L","M",
          "N","O","P","Q","R","S","T","U","V","W","X","Y","Z"} |->
     CASE c = "A" -> "a" [] c = "B" -> "b" [] c = "C" -> "c" [] c = "D" -> "d"
       [] c = "E" -> "e" [] c = "F" -> "f" [] c = "G" -> "g" [] c = "H" -> "h"
       [] c = "I" -> "i" [] c = "J" -> "j" [] c = "K" -> "k" [] c = "L" -> "l"
       [] c = "M" -> "m" [] c = "N" -> "n" [] c = "O" -> "o" [] c = "P" -> "p"
       [] c = "Q" -> "q" [] c = "R" -> "r" [] c = "S" -> "s" [] c = "T" -> "t"
       [] c = "U" -> "u" [] c = "V" -> "v" [] c = "W" -> "w" [] c = "X" -> "x"
       [] c = "Y" -> "y" [] OTHER -> "z"]

\* str.lower() on one character
LowerChar(c) == IF c \in DOMAIN UpperToLower THEN UpperToLower[c] ELSE c

\* str.lower()
Lower(s) == [i \in 1..Len(s) |-> LowerChar(s[i])]

\* \w of the re module, for the characters in play
IsWordChar(c) == LowerChar(c) \in LowerLetters \cup Digits \cup {"_"}

\* s[a..b] (1-based, inclusive), empty when a > b
Slice(s, a, b) == IF a > b THEN <<>> ELSE SubSeq(s, a, b)

\* s.startswith(p, at i)
StartsWithAt(s, p, i) ==
  /\ i >= 1
  /\ i + Len(p) - 1 <= Len(s)
  /\ \A k \in 1..Len(p) : s[i + k - 1] = p[k]

\* p in s
Contains(s, p) == \E i \in 1..(Len(s) - Len(p) + 1) : StartsWithAt(s, p, i)

\* 1..Len(s) as a sequence
Indices(s) == [i \in 1..Len(s) |-> i]

\* the indices i of s with flags[i], ascending
IndicesWhere(s, flags) ==
  LET Test(i) == flags[i] IN SelectSeq(Indices(s), Test)

\* the characters s[i] with flags[i], in order
KeepWhere(s, flags) ==
  LET at == IndicesWhere(s, flags) IN [k \in 1..Len(at) |-> s[at[k]]]

\* str.strip()
Strip(s) ==
  LET at == IndicesWhere(s, [i \in 1..Len(s) |-> ~IsSpace(s[i])])
  IN IF Len(at) = 0 THEN <<>> ELSE SubSeq(s, at[1], at[Len(at)])

RECURSIVE JoinFrom(_, _, _)
JoinFrom(parts, sep, k) ==
  IF k > Len(parts) THEN <<>>
  ELSE IF k = Len(parts) THEN parts[k]
  ELSE parts[k] \o sep \o JoinFrom(parts, sep, k + 1)

\* sep.join(parts)
Join(parts, sep) == JoinFrom(parts, sep, 1)

\* s.split(c) for a one-character separator
Split(s, c) ==
  LET cuts == <<0>> \o IndicesWhere(s, [i \in 1..Len(s) |-> s[i] = c]) \o <<Len(s) + 1>>
  IN [k \in 1..(Len(cuts) - 1) |-> Slice(s, cuts[k] + 1, cuts[k + 1] - 1)]

(***************************************************************************)
(* extractor/utils.py                                                      *)
(***************************************************************************)
IdLen == 32

\* [a-z0-9] instead of [a-f0-9]
IsHexOrLetter(c) == LowerChar(c) \in HexDigits \cup LowerLetters

IsHex(c) == LowerChar(c) \in HexDigits

\* [a-f0-9]{32} (IGNORECASE) matches at position i
HexRunAt(s, i) ==
  /\ i >= 1
  /\ i + IdLen - 1 <= Len(s)
  /\ \A k \in 0..(IdLen - 1) : IsHex(s[i + k])

PathLoom == <<"l","o","o","m",".","c","o","m","/">>
KindShare == <<"s","h","a","r","e","/">>
KindEmbed == <<"e","m","b","e","d","/">>
KindRecording == <<"r","e","c","o","r","d","i","n","g","/">>
UrlKinds == <<KindShare, KindEmbed, KindRecording>>

\* positions of group 1 of _URL_ID_RE: loom\.com/(share|embed|recording)/ then
\* 32 hex characters; the optional scheme and www. prefixes never decide a match
UrlIdStarts(s) ==
  LET low == Lower(s)
  IN {i \in 1..Len(s) :
        \E k \in 1..Len(UrlKinds) :
          LET p == PathLoom \o UrlKinds[k]
          IN /\ i > Len(p)
             /\ StartsWithAt(low, p, i - Len(p))
             /\ HexRunAt(s, i)}

\* positions of group 1 of _LOOM_ID_RE: \b([a-f0-9]{32})\b
RawIdStarts(s) ==
  {i \in 1..Len(s) :
     /\ HexRunAt(s, i)
     /\ (i = 1 \/ ~IsWordChar(s[i - 1]))
     /\ (i + IdLen > Len(s) \/ ~IsWordChar(s[i + IdLen]))}

MinOf(S) == CHOOSE x \in S : \A y \in S : x <= y

NoId == [t |-> "none"]

\* m.group(1) without the .lower()
IdAtKeepCase(s, i) == SubSeq(s, i, i + IdLen - 1)

\* m.group(1).lower() for a match whose group starts at i
IdAt(s, i) == Lower(SubSeq(s, i, i + IdLen - 1))

\* extract_video_id: [t |-> "str", v |-> id] or NoId
extract_video_id(item) ==
  IF Len(item) = 0 THEN NoId
  ELSE LET s == Strip(item)
           u == UrlIdStarts(s)
           r == RawIdStarts(s)
       IN IF u # {}
            THEN [t |-> "str", v |-> IdAt(s, MinOf(u))]
          ELSE IF r # {}
            THEN [t |-> "str", v |-> IdAt(s, MinOf(r))]
          ELSE NoId

\* text.replace("\r\n", "\n").replace("\r", "\n")
UnifyNewlines(s) ==
  KeepWhere([i \in 1..Len(s) |-> IF s[i] = CR THEN LF ELSE s[i]],
            [i \in 1..Len(s) |-> ~(s[i] = LF /\ i > 1 /\ s[i - 1] = CR)])

\* "\n".join(line.strip() for line in text.split("\n"))
StripLines(s) ==
  LET lines == Split(s, LF)
  IN Join([k \in 1..Len(lines) |-> Strip(lines[k])], <<LF>>)

BlankRunMin == 3

\* the text with its blank lines left as they are
KeepBlankLines(s) == s

\* re.sub(r"\n{3,}", "\n\n", text): of a run of newlines, the third and later go
CollapseBlankLines(s) ==
  KeepWhere(s, [i \in 1..Len(s) |->
                  ~(/\ i >= BlankRunMin
                    /\ \A k \in 0..(BlankRunMin - 1) : s[i - k] = LF)])

normalize_whitespace(text) ==
  Strip(CollapseBlankLines(StripLines(UnifyNewlines(text))))

(***************************************************************************)
(* Parsed JSON values (the result of json.loads / resp.json()).  A map     *)
(* keeps its members in insertion order, as a Python dict does.            *)
(***************************************************************************)
JStr(s) == [t |-> "str", v |-> s]
JNum(n) == [t |-> "num", v |-> n]
JBool(b) == [t |-> "bool", v |-> b]
JNull == [t |-> "null"]
JList(xs) == [t |-> "list", v |-> xs]
JMap(ps) == [t |-> "map", v |-> ps]

None == [t |-> "none"]
Raise(e) == [t |-> "raise", v |-> e]

\* key in node
MapHas(m, key) == \E k \in 1..Len(m.v) : m.v[k][1] = key

\* node[key]
MapGet(m, key) == m.v[CHOOSE k \in 1..Len(m.v) : m.v[k][1] = key][2]

\* d[key] = val on the member sequence
MapPut(ps, key, val) ==
  IF \E k \in 1..Len(ps) : ps[k][1] = key
    THEN [k \in 1..Len(ps) |-> IF ps[k][1] = key THEN <<key, val>> ELSE ps[k]]
    ELSE Append(ps, <<key, val>>)

DigitChars == <<"0","1","2","3","4","5","6","7","8","9">>
DigitVal(c) == (CHOOSE k \in 1..Len(DigitChars) : DigitChars[k] = c) - 1

RECURSIVE NatToChars(_)
NatToChars(n) ==
  IF n < Len(DigitChars) THEN <<DigitChars[n + 1]>>
  ELSE NatToChars(n \div Len(DigitChars)) \o <<DigitChars[(n % Len(DigitChars)) + 1]>>

\* str(x) of a parsed value (the repr of a container is kept opaque)
PyStr(x) ==
  CASE x.t = "str" -> x.v
    [] x.t = "num" -> IF x.v < 0 THEN <<"-">> \o NatToChars(-x.v) ELSE NatToChars(x.v)
    [] x.t = "bool" -> IF x.v THEN <<"T","r","u","e">> ELSE <<"F","a","l","s","e">>
    [] x.t = "null" -> <<"N","o","n","e">>
    [] OTHER -> <<"<repr>">>

\* bool(x) of a parsed value
Truthy(x) ==
  CASE x.t = "str" -> Len(x.v) > 0
    [] x.t = "num" -> x.v # 0
    [] x.t = "bool" -> x.v
    [] x.t = "null" -> FALSE
    [] x.t = "none" -> FALSE
    [] OTHER -> Len(x.v) > 0

\* isinstance(x, (str, int, float)); a Python bool is an int
IsScalar(x) == x.t \in {"str", "num", "bool"}

(***************************************************************************)
(* json.loads on the JSON subset in play: objects, arrays, strings with    *)
(* the simple backslash escapes, integers, true, false, null.              *)
(***************************************************************************)
ParseFail == [ok |-> FALSE]
ParseOk(val, pos) == [ok |-> TRUE, val |-> val, pos |-> pos]

RECURSIVE SkipWs(_, _)
SkipWs(s, i) == IF i <= Len(s) /\ IsSpace(s[i]) THEN SkipWs(s, i + 1) ELSE i

Escapes == {QUOTE, BACKSLASH, "/", "n", "t", "r"}
Unescape(c) == CASE c = "n" -> LF [] c = "t" -> TAB [] c = "r" -> CR [] OTHER -> c

\* the number of consecutive backslashes that end just before position i
BackslashesBefore(s, i) ==
  LET other == IndicesWhere(s, [k \in 1..Len(s) |-> k < i /\ s[k] # BACKSLASH])
  IN IF Len(other) = 0 THEN i - 1 ELSE i - 1 - other[Len(other)]

\* position i holds a backslash that escapes the character after it
IsEscaping(s, i) == s[i] = BACKSLASH /\ BackslashesBefore(s, i) % 2 = 0

\* position i holds a character escaped by the backslash before it
IsEscaped(s, i) == i > 1 /\ s[i - 1] = BACKSLASH /\ BackslashesBefore(s, i) % 2 = 1

\* the body of a string literal, from the character after its opening quote
ParseString(s, i) ==
  LET ends == IndicesWhere(s, [k \in 1..Len(s) |->
                                 k >= i /\ s[k] = QUOTE /\ ~IsEscaped(s, k)])
  IN IF Len(ends) = 0 THEN ParseFail
     ELSE LET j == ends[1]
              raw == Slice(s, i, j - 1)
              bad == \E k \in 1..Len(raw) :
                       \/ raw[k] \in {LF, CR, TAB}
                       \/ IsEscaped(raw, k) /\ raw[k] \notin Escapes
              body == KeepWhere([k \in 1..Len(raw) |->
                                   IF IsEscaped(raw, k) THEN Unescape(raw[k]) ELSE raw[k]],
                                [k \in 1..Len(raw) |-> ~IsEscaping(raw, k)])
          IN IF bad THEN ParseFail ELSE ParseOk(JStr(body), j + 1)

RECURSIVE ParseDigits(_, _, _)
ParseDigits(s, i, n) ==
  IF i <= Len(s) /\ s[i] \in Digits
    THEN ParseDigits(s, i + 1, n * Len(DigitChars) + DigitVal(s[i]))
    ELSE ParseOk(JNum(n), i)

Negated(r) == ParseOk(JNum(-r.val.v), r.pos)

ParseNumber(s, i) ==
  IF s[i] = "-"
    THEN IF i + 1 <= Len(s) /\ s[i + 1] \in Digits
           THEN Negated(ParseDigits(s, i + 1, 0))
           ELSE ParseFail
    ELSE ParseDigits(s, i, 0)

LitTrue == <<"t","r","u","e">>
LitFalse == <<"f","a","l","s","e">>
LitNull == <<"n","u","l","l">>

RECURSIVE ParseValue(_, _), ParseElems(_, _, _), ParseMembers(_, _, _)

\* after "[" or "{": the empty container, or its first element or member
ParseOpen(s, k, close) ==
  IF k <= Len(s) /\ s[k] = close
    THEN ParseOk(IF close = "]" THEN JList(<<>>) ELSE JMap(<<>>), k + 1)
  ELSE IF close = "]" THEN ParseElems(s, k, <<>>)
  ELSE ParseMembers(s, k, <<>>)

ParseValueAt(s, j) ==
  IF j > Len(s) THEN ParseFail
  ELSE IF s[j] = QUOTE THEN ParseString(s, j + 1)
  ELSE IF s[j] = "{" THEN ParseOpen(s, SkipWs(s, j + 1), "}")
  ELSE IF s[j] = "[" THEN ParseOpen(s, SkipWs(s, j + 1), "]")
  ELSE IF StartsWithAt(s, LitTrue, j) THEN ParseOk(JBool(TRUE), j + Len(LitTrue))
  ELSE IF StartsWithAt(s, LitFalse, j) THEN ParseOk(JBool(FALSE), j + Len(LitFalse))
  ELSE IF StartsWithAt(s, LitNull, j) THEN ParseOk(JNull, j + Len(LitNull))
  ELSE IF s[j] \in Digits \cup {"-"} THEN ParseNumber(s, j)
  ELSE ParseFail

ParseValue(s, i) == ParseValueAt(s, SkipWs(s, i))

\* after an element r of an array: "," and the next element, or "]"
ElemsAfter(s, r, j, acc) ==
  IF j > Len(s) THEN ParseFail
  ELSE IF s[j] = "," THEN ParseElems(s, j + 1, Append(acc, r.val))
  ELSE IF s[j] = "]" THEN ParseOk(JList(Append(acc, r.val)), j + 1)
  ELSE ParseFail

ElemsValue(s, r, acc) ==
  IF ~r.ok THEN ParseFail ELSE ElemsAfter(s, r, SkipWs(s, r.pos), acc)

ParseElems(s, i, acc) == ElemsValue(s, ParseValue(s, i), acc)

\* after a member of an object: "," and the next member, or "}"
MembersAfter(s, ps, e) ==
  IF e > Len(s) THEN ParseFail
  ELSE IF s[e] = "," THEN ParseMembers(s, e + 1, ps)
  ELSE IF s[e] = "}" THEN ParseOk(JMap(ps), e + 1)
  ELSE ParseFail

MembersValue(s, key, r, acc) ==
  IF ~r.ok THEN ParseFail
  ELSE MembersAfter(s, MapPut(acc, key.val.v, r.val), SkipWs(s, r.pos))

MembersColon(s, key, c, acc) ==
  IF c > Len(s) \/ s[c] # ":" THEN ParseFail
  ELSE MembersValue(s, key, ParseValue(s, c + 1), acc)

MembersKey(s, key, acc) ==
  IF ~key.ok THEN ParseFail ELSE MembersColon(s, key, SkipWs(s, key.pos), acc)

MembersAt(s, j, acc) ==
  IF j > Len(s) \/ s[j] # QUOTE THEN ParseFail
  ELSE MembersKey(s, ParseString(s, j + 1), acc)

ParseMembers(s, i, acc) == MembersAt(s, SkipWs(s, i), acc)

\* the whole text must be one value
WholeText(text, r) ==
  IF r.ok /\ SkipWs(text, r.pos) > Len(text) THEN r ELSE ParseFail

\* json.loads(text): [ok |-> TRUE, val |-> value] or ParseFail (ValueError)
JsonLoads(text) == WholeText(text, ParseValue(text, 1))

(***************************************************************************)
(* extractor/loom_client.py: the payload interpreter                       *)
(***************************************************************************)
KeyTranscript == <<"t","r","a","n","s","c","r","i","p","t">>
KeyCaptions == <<"c","a","p","t","i","o","n","s">>
KeySubtitles == <<"s","u","b","t","i","t","l","e","s">>
KeySrt == <<"s","r","t">>
KeyVtt == <<"v","t","t">>
KeyText == <<"t","e","x","t">>
KeyCaption == <<"c","a","p","t","i","o","n">>
KeyData == <<"d","a","t","a">>

\* dict.get(key): the value, or Python None
DictGet(m, key) == IF MapHas(m, key) THEN MapGet(m, key) ELSE JNull

\* a or b
PyOr(a, b) == IF Truthy(a) THEN a ELSE b

\* c.get("text") or "": the caption is never looked at
CaptionOnlyText(c) == PyOr(DictGet(c, KeyText), JStr(<<>>))

\* c.get("text") or c.get("caption") or ""
CaptionText(c) == PyOr(PyOr(DictGet(c, KeyText), DictGet(c, KeyCaption)), JStr(<<>>))

\* the fragments loop of lines 94-98: [err |-> exception or "", f |-> fragments]
\* lines 97-98 and 115-116: "if txt: fragments.append(txt)"
AppendIfTruthy(f, txt) == IF Truthy(txt) THEN Append(f, txt) ELSE f

RECURSIVE CaptionFragments(_, _, _)
CaptionFragments(elems, k, f) ==
  IF k > Len(elems) THEN [err |-> "", f |-> f]
  ELSE IF elems[k].t # "map" THEN [err |-> "AttributeError", f |-> f]
  ELSE CaptionFragments(elems, k + 1, AppendIfTruthy(f, CaptionText(elems[k])))

\* the fragments loop of lines 109-116
RECURSIVE ListFragments(_, _, _)
ListFragments(elems, k, f) ==
  IF k > Len(elems) THEN f
  ELSE ListFragments(elems, k + 1,
         AppendIfTruthy(f, IF elems[k].t = "map" THEN CaptionText(elems[k])
                           ELSE JStr(PyStr(elems[k]))))

\* "\n".join(fragments).strip() if fragments else None
JoinFragments(f) ==
  IF Len(f) = 0 THEN None
  ELSE IF \E k \in 1..Len(f) : f[k].t # "str" THEN Raise("TypeError")
  ELSE JStr(Strip(Join([k \in 1..Len(f) |-> f[k].v], <<LF>>)))

\* line 99, or the exception of the fragments loop
CaptionsResult(r) == IF r.err # "" THEN Raise(r.err) ELSE JoinFragments(r.f)

\* the heuristics with the nested "data" shape tried before the captions
TypedNestedFirst(data) ==
  IF data.t = "map"
    THEN IF MapHas(data, KeyTranscript) /\ MapGet(data, KeyTranscript).t = "str"
           THEN MapGet(data, KeyTranscript)
         ELSE IF /\ MapHas(data, KeyData)
                 /\ MapGet(data, KeyData).t = "map"
                 /\ MapHas(MapGet(data, KeyData), KeyTranscript)
                 /\ MapGet(MapGet(data, KeyData), KeyTranscript).t = "str"
           THEN MapGet(MapGet(data, KeyData), KeyTranscript)
         ELSE IF MapHas(data, KeyCaptions) /\ MapGet(data, KeyCaptions).t = "list"
           THEN CaptionsResult(CaptionFragments(MapGet(data, KeyCaptions).v, 1, <<>>))
         ELSE None
  ELSE IF data.t = "list" THEN JoinFragments(ListFragments(data.v, 1, <<>>))
  ELSE None

\* lines 88-119 of _try_fetch_json_transcript: the shape heuristics on the
\* parsed body; None, a string, or the exception raised
TypedTranscript(data) ==
  IF data.t = "map"
    THEN IF MapHas(data, KeyTranscript) /\ MapGet(data, KeyTranscript).t = "str"
           THEN MapGet(data, KeyTranscript)
         ELSE IF MapHas(data, KeyCaptions) /\ MapGet(data, KeyCaptions).t = "list"
           THEN CaptionsResult(CaptionFragments(MapGet(data, KeyCaptions).v, 1, <<>>))
         ELSE IF /\ MapHas(data, KeyData)
                 /\ MapGet(data, KeyData).t = "map"
                 /\ MapHas(MapGet(data, KeyData), KeyTranscript)
                 /\ MapGet(MapGet(data, KeyData), KeyTranscript).t = "str"
           THEN MapGet(MapGet(data, KeyData), KeyTranscript)
         ELSE None
  ELSE IF data.t = "list" THEN JoinFragments(ListFragments(data.v, 1, <<>>))
  ELSE None

\* _extract_json_like_strings: the balanced-brace substrings, in order; only
\* the braces change the stack, so the loop is followed brace by brace
RECURSIVE BlobsFrom(_, _, _, _, _)
BlobsFrom(s, braces, k, depth, start) ==
  IF k > Len(braces) THEN <<>>
  ELSE IF s[braces[k]] = "{"
    THEN BlobsFrom(s, braces, k + 1, depth + 1, IF depth = 0 THEN braces[k] ELSE start)
  ELSE IF depth = 0 THEN BlobsFrom(s, braces, k + 1, depth, start)
  ELSE IF depth = 1
    THEN <<SubSeq(s, start, braces[k])>> \o BlobsFrom(s, braces, k + 1, 0, start)
  ELSE BlobsFrom(s, braces, k + 1, depth - 1, start)

extract_json_like_strings(s) ==
  BlobsFrom(s, IndicesWhere(s, [i \in 1..Len(s) |-> s[i] \in {"{", "}"}]), 1, 0, 0)

\* re.sub(r"(?<!\\)'", '"', blob)
CoerceQuotes(s) ==
  [i \in 1..Len(s) |->
     IF s[i] = APOS /\ (i = 1 \/ s[i - 1] # BACKSLASH) THEN QUOTE ELSE s[i]]

PriorityKeys == <<KeyTranscript, KeyCaptions, KeySubtitles, KeySrt, KeyVtt, KeyText>>
MinFragmentLen == 20
MinTextLen == 40
MaxVisited == 20000

\* lines 188-192: the elems of a list stored under a priority key
RECURSIVE KeyListItems(_, _, _)
KeyListItems(elems, k, st) ==
  IF k > Len(elems) THEN st
  ELSE KeyListItems(elems, k + 1,
         IF IsScalar(elems[k]) /\ Len(Strip(PyStr(elems[k]))) > 0
           THEN [st EXCEPT !.f = Append(@, PyStr(elems[k]))]
           ELSE [st EXCEPT !.q = Append(@, elems[k])])

\* lines 182-194: the priority keys of a map node
\* lines 184-194: the value found under one priority key
PriorityValue(val, st) ==
  IF val.t = "str"
    THEN IF Len(val.v) > MinFragmentLen THEN [st EXCEPT !.f = Append(@, val.v)] ELSE st
  ELSE IF val.t = "list" THEN KeyListItems(val.v, 1, st)
  ELSE IF val.t = "map" THEN [st EXCEPT !.q = Append(@, val)]
  ELSE st

RECURSIVE PriorityKeysFrom(_, _, _)
PriorityKeysFrom(node, k, st) ==
  IF k > Len(PriorityKeys) THEN st
  ELSE IF ~MapHas(node, PriorityKeys[k]) THEN PriorityKeysFrom(node, k + 1, st)
  ELSE PriorityKeysFrom(node, k + 1, PriorityValue(MapGet(node, PriorityKeys[k]), st))

\* lines 196-198: every map or list child is enqueued
RECURSIVE EnqueueChildren(_, _, _)
EnqueueChildren(members, k, st) ==
  IF k > Len(members) THEN st
  ELSE EnqueueChildren(members, k + 1,
         IF members[k][2].t \in {"map", "list"}
           THEN [st EXCEPT !.q = Append(@, members[k][2])] ELSE st)

\* lines 199-204: a list node
RECURSIVE ListNodeItems(_, _, _)
ListNodeItems(elems, k, st) ==
  IF k > Len(elems) THEN st
  ELSE ListNodeItems(elems, k + 1,
         IF elems[k].t \in {"map", "list"} THEN [st EXCEPT !.q = Append(@, elems[k])]
         ELSE IF IsScalar(elems[k]) /\ Len(Strip(PyStr(elems[k]))) > 0
           THEN [st EXCEPT !.f = Append(@, PyStr(elems[k]))]
         ELSE st)

\* lines 177-204: the breadth-first walk; st = [q |-> queue, f |-> fragments,
\* seen |-> nodes dequeued]
\* lines 180-204: one dequeued node
Visit(node, st) ==
  IF node.t = "map" THEN EnqueueChildren(node.v, 1, PriorityKeysFrom(node, 1, st))
  ELSE IF node.t = "list" THEN ListNodeItems(node.v, 1, st)
  ELSE st

\* "while queue": the loop without its bound
LoopUnbounded(st, limit) == Len(st.q) > 0

\* line 177: "while queue and seen < 20000"
LoopGoesOn(st, limit) == Len(st.q) > 0 /\ st.seen < limit

\* lines 178-204: one turn of the loop
Turn(st) == Visit(Head(st.q), [q |-> Tail(st.q), f |-> st.f, seen |-> st.seen + 1])

\* at most n turns of the loop
RECURSIVE WalkTurns(_, _, _)
WalkTurns(st, limit, n) ==
  IF n = 0 \/ ~LoopGoesOn(st, limit) THEN st ELSE WalkTurns(Turn(st), limit, n - 1)

\* how many turns, and how many runs of turns, are unfolded at once: the
\* loop is unfolded in runs of runs to keep each unfolding shallow
TurnsAtOnce == MaxVisited \div 500

\* at most n runs of TurnsAtOnce turns
RECURSIVE WalkRuns(_, _, _)
WalkRuns(st, limit, n) ==
  IF n = 0 \/ ~LoopGoesOn(st, limit) THEN st
  ELSE WalkRuns(WalkTurns(st, limit, TurnsAtOnce), limit, n - 1)

\* the whole loop
RECURSIVE Walk(_, _)
Walk(st, limit) ==
  IF ~LoopGoesOn(st, limit) THEN st ELSE Walk(WalkRuns(st, limit, TurnsAtOnce), limit)

\* the joined text returned whatever its length
JoinedAnyText(joined) == JStr(joined)

\* lines 206-207
JoinedText(joined) == IF Len(joined) > MinTextLen THEN JStr(joined) ELSE None

\* lines 174-176: the walk is about to start
WalkStart(data) == [q |-> <<data>>, f |-> <<>>, seen |-> 0]

\* lines 174-207 on the parsed blob
BlobText(data, limit) ==
  JoinedText(Strip(Join(Walk(WalkStart(data), limit).f, <<LF>>)))

\* lines 166-171: the retry with the quotes coerced
CoercedBlobText(coerced) ==
  IF coerced.ok THEN BlobText(coerced.val, MaxVisited) ELSE None

StrictBlobText(blob, strict) ==
  IF strict.ok THEN BlobText(strict.val, MaxVisited)
  ELSE CoercedBlobText(JsonLoads(CoerceQuotes(blob)))

\* _extract_text_from_json_blob
extract_text_from_json_blob(blob) == StrictBlobText(blob, JsonLoads(blob))

(***************************************************************************)
(* A parsed HTML page (BeautifulSoup): its script elements and text nodes  *)
(* in document order, each [tag |-> "script" | "text", s |-> content].     *)
(***************************************************************************)
WordTranscript == KeyTranscript

\* re.compile(r"\btranscript\b", re.IGNORECASE).search(s)
MatchesTranscriptWord(s) ==
  \E i \in 1..Len(s) :
    /\ StartsWithAt(s, WordTranscript, i) \/ StartsWithAt(Lower(s), WordTranscript, i)
    /\ (i = 1 \/ ~IsWordChar(s[i - 1]))
    /\ (i + Len(WordTranscript) > Len(s) \/ ~IsWordChar(s[i + Len(WordTranscript)]))

\* lines 132-135: the first blob of a script that yields text
RECURSIVE FirstBlobText(_, _)
BlobOrNext(txt, blobs, k) == IF Truthy(txt) THEN txt ELSE FirstBlobText(blobs, k + 1)

FirstBlobText(blobs, k) ==
  IF k > Len(blobs) THEN None
  ELSE BlobOrNext(extract_text_from_json_blob(blobs[k]), blobs, k)

\* lines 125-135: the scripts mentioning "transcript", in order
RECURSIVE ScriptsText(_, _)
ScriptOrNext(txt, nodes, k) == IF Truthy(txt) THEN txt ELSE ScriptsText(nodes, k + 1)

ScriptsText(nodes, k) ==
  IF k > Len(nodes) THEN None
  ELSE IF nodes[k].tag # "script" THEN ScriptsText(nodes, k + 1)
  ELSE IF Len(nodes[k].s) = 0 \/ ~Contains(Lower(nodes[k].s), KeyTranscript)
    THEN ScriptsText(nodes, k + 1)
  ELSE ScriptOrNext(FirstBlobText(extract_json_like_strings(nodes[k].s), 1), nodes, k)

\* lines 139-143: the first text node matching the word, longer than 40
RECURSIVE TextNodesText(_, _)
TextNodesText(nodes, k) ==
  IF k > Len(nodes) THEN None
  ELSE IF MatchesTranscriptWord(nodes[k].s) /\ Len(nodes[k].s) > MinTextLen
    THEN JStr(nodes[k].s)
  ELSE TextNodesText(nodes, k + 1)

\* _parse_share_page_for_transcript
ScriptsOrTextNodes(txt, html) == IF Truthy(txt) THEN txt ELSE TextNodesText(html, 1)

parse_share_page_for_transcript(html) == ScriptsOrTextNodes(ScriptsText(html, 1), html)

(***************************************************************************)
(* The inputs of a run: the items of the input file, and what the upstream *)
(* service may answer to a GET.                                            *)
(***************************************************************************)
InShareUpper ==
  <<"h","t","t","p","s",":","/","/","w","w","w",".","l","o","o","m",".","c","o","m","/","s","h","a","r","e","/","A","B","C","D","E","F","0","1","2","3","4","5","6","7","8","9","A","B","C","D","E","F","0","1","2","3","4","5","6","7","8","9">>

InRawId ==
  <<"0","1","2","3","4","5","6","7","8","9","a","b","c","d","e","f","0","1","2","3","4","5","6","7","8","9","a","b","c","d","e","f">>

InJunk ==
  <<"n","o","t","-","a","-","l","o","o","m","-","l","i","n","k">>

TextHello ==
  <<"H","e","l","l","o",SP,"w","o","r","l","d",",",SP,"t","h","i","s",SP,"i","s",SP,"t","h","e",SP,"f","u","l","l",SP,"r","e","c","o","r","d","e","d",SP,"t","r","a","n","s","c","r","i","p","t",SP,"t","e","x","t",".">>

TextExtra ==
  <<"s","e","c","o","n","d",SP,"c","a","p","t","i","o","n",SP,"t","r","a","c","k",SP,"h","e","r","e">>

TextPadded ==
  <<"a","a","a","a","a","a","a","a","a","a","a","a","a","a","a","a","a","a","a","a","a","a","a","a","a","a","a","a","a","a","a","a","a","a","a","a","a","a","a","a",SP>>

BodyNotFound ==
  <<"N","o","t",SP,"F","o","u","n","d">>

BodyHtml ==
  <<"<","h","t","m","l",">","o","o","p","s","<","/","h","t","m","l",">">>

BodyTranscript ==
  <<"{",QUOTE,"t","r","a","n","s","c","r","i","p","t",QUOTE,":",QUOTE,"H","e","l","l","o",SP,"w","o","r","l","d",",",SP,"t","h","i","s",SP,"i","s",SP,"t","h","e",SP,"f","u","l","l",SP,"r","e","c","o","r","d","e","d",SP,"t","r","a","n","s","c","r","i","p","t",SP,"t","e","x","t",".",QUOTE,"}">>

BodyEmpty ==
  <<"{",QUOTE,"t","r","a","n","s","c","r","i","p","t",QUOTE,":",QUOTE,QUOTE,"}">>

BodyBlank ==
  <<"{",QUOTE,"t","r","a","n","s","c","r","i","p","t",QUOTE,":",QUOTE,SP,BACKSLASH,"n",SP,QUOTE,"}">>

BodyBadCaptions ==
  <<"{",QUOTE,"c","a","p","t","i","o","n","s",QUOTE,":","[",QUOTE,"a",QUOTE,"]","}">>

ScriptHello ==
  <<"{",QUOTE,"t","r","a","n","s","c","r","i","p","t",QUOTE,":",QUOTE,"H","e","l","l","o",SP,"w","o","r","l","d",",",SP,"t","h","i","s",SP,"i","s",SP,"t","h","e",SP,"f","u","l","l",SP,"r","e","c","o","r","d","e","d",SP,"t","r","a","n","s","c","r","i","p","t",SP,"t","e","x","t",".",QUOTE,"}">>

ScriptPadded ==
  <<"{",QUOTE,"t","r","a","n","s","c","r","i","p","t",QUOTE,":",QUOTE>> \o TextPadded \o <<QUOTE,"}">>

ScriptExtra ==
  <<"{",QUOTE,"t","r","a","n","s","c","r","i","p","t",QUOTE,":",QUOTE,"H","e","l","l","o",SP,"w","o","r","l","d",",",SP,"t","h","i","s",SP,"i","s",SP,"t","h","e",SP,"f","u","l","l",SP,"r","e","c","o","r","d","e","d",SP,"t","r","a","n","s","c","r","i","p","t",SP,"t","e","x","t",".",QUOTE,",",QUOTE,"t","e","x","t",QUOTE,":",QUOTE,"s","e","c","o","n","d",SP,"c","a","p","t","i","o","n",SP,"t","r","a","c","k",SP,"h","e","r","e",QUOTE,"}">>

TitleText ==
  <<"L","o","o","m",SP,"|",SP,"F","r","e","e",SP,"S","c","r","e","e","n",SP,"&",SP,"V","i","d","e","o",SP,"R","e","c","o","r","d","i","n","g">>

\* the strings an input file may hold
Inputs == <<InShareUpper, InRawId, InJunk>>

\* an HTTP exchange: a response with a status and a body, or a network failure
Http(status, body) == [kind |-> "http", status |-> status, body |-> body]
NetFail == [kind |-> "neterr"]

\* what a guessed API endpoint may answer
ApiResponses ==
  <<Http(404, BodyNotFound), Http(500, BodyHtml), NetFail, Http(200, BodyHtml),
    Http(200, BodyEmpty), Http(200, BodyTranscript), Http(200, BodyBlank),
    Http(200, BodyBadCaptions)>>

PageHello == <<[tag |-> "text", s |-> TitleText], [tag |-> "script", s |-> ScriptHello]>>
PagePadded == <<[tag |-> "text", s |-> TitleText], [tag |-> "script", s |-> ScriptPadded]>>
PageExtra == <<[tag |-> "text", s |-> TitleText], [tag |-> "script", s |-> ScriptExtra]>>
PagePlain == <<[tag |-> "text", s |-> TitleText]>>

\* what the share page or the embed page may answer (the body as parsed HTML)
PageResponses ==
  <<Http(404, PagePlain), Http(401, PagePlain), Http(403, PagePlain),
    Http(500, PagePlain), NetFail, Http(200, PagePlain), Http(200, PageHello),
    Http(200, PagePadded), Http(200, PageExtra)>>

(***************************************************************************)
(* extractor/loom_client.py: the HTTP helpers and the retry policy         *)
(***************************************************************************)
\* resp.raise_for_status() raises
IsHttpError(status) == status >= 400 /\ status < 600

\* lines 83-85, then the heuristics on the parsed body
BodyTranscriptOf(data) == IF ~data.ok THEN None ELSE TypedTranscript(data.val)

\* _try_fetch_json_transcript: None, a string, or the exception raised
try_fetch_json_transcript(resp) ==
  IF resp.kind = "neterr" THEN None
  ELSE IF resp.status = 404 THEN None
  ELSE IF IsHttpError(resp.status) THEN None
  ELSE BodyTranscriptOf(JsonLoads(resp.body))

Err(type, msg) == [t |-> "raise", type |-> type, msg |-> msg]

MsgUnavailable == <<"U","n","a","v","a","i","l","a","b","l","e",":",SP>>
MsgHttpError == <<SP,"S","e","r","v","e","r",SP,"E","r","r","o","r">>
MsgConnection == <<"C","o","n","n","e","c","t","i","o","n",SP,"a","b","o","r","t","e","d",".">>
MsgNotFound ==
  <<"T","r","a","n","s","c","r","i","p","t",SP,"n","o","t",SP,"f","o","u","n","d",SP,"o","r",SP,"v","i","d","e","o",SP,"i","s",SP,"p","r","i","v","a","t","e","/","u","n","a","v","a","i","l","a","b","l","e",".">>
MsgEmpty ==
  <<"T","r","a","n","s","c","r","i","p","t",SP,"e","x","t","r","a","c","t","e","d",SP,"b","u","t",SP,"e","m","p","t","y",SP,"a","f","t","e","r",SP,"c","l","e","a","n","i","n","g",".">>
MsgNoId ==
  <<"C","o","u","l","d",SP,"n","o","t",SP,"e","x","t","r","a","c","t",SP,"L","o","o","m",SP,"v","i","d","e","o",SP,"I","D",SP,"f","r","o","m",SP>>

UnavailableStatuses == {401, 403, 404}

\* _get without the check of 401/403/404: raise_for_status alone
GetRaiseForStatus(resp) ==
  IF resp.kind = "neterr" THEN Err("RequestException", MsgConnection)
  ELSE IF IsHttpError(resp.status)
    THEN Err("RequestException", NatToChars(resp.status) \o MsgHttpError)
  ELSE [t |-> "html", v |-> resp.body]

\* _get handing back an empty page for 401/403/404 instead of raising
GetEmptyWhenUnavailable(resp) ==
  IF resp.kind = "neterr" THEN Err("RequestException", MsgConnection)
  ELSE IF resp.status \in UnavailableStatuses THEN [t |-> "html", v |-> <<>>]
  ELSE IF IsHttpError(resp.status)
    THEN Err("RequestException", NatToChars(resp.status) \o MsgHttpError)
  ELSE [t |-> "html", v |-> resp.body]

\* _get: the page, or the exception raised
get(resp) ==
  IF resp.kind = "neterr" THEN Err("RequestException", MsgConnection)
  ELSE IF resp.status \in UnavailableStatuses
    THEN Err("LoomError", MsgUnavailable \o NatToChars(resp.status))
  ELSE IF IsHttpError(resp.status)
    THEN Err("RequestException", NatToChars(resp.status) \o MsgHttpError)
  ELSE [t |-> "html", v |-> resp.body]

NotFoundError == Err("LoomError", MsgNotFound)

\* stop_after_attempt(3)
MaxAttempts == 3

\* retry_if_exception_type(requests.RequestException)
OnlyTransportRetryable(type) == type = "RequestException"

\* retry_if_exception_type((requests.RequestException, LoomError))
Retryable(type) == type \in {"RequestException", "LoomError"}

\* what a page strategy makes of its GET: lines 63-66 and 70-73
PageTextOf(html) ==
  IF html.t = "raise" THEN html ELSE parse_share_page_for_transcript(html.v)

PageText(resp) == PageTextOf(get(resp))

\* the outcome of each possible exchange, as a table computed once
ApiOutcome ==
  [r \in 1..Len(ApiResponses) |-> try_fetch_json_transcript(ApiResponses[r])]
PageOutcome ==
  [r \in 1..Len(PageResponses) |-> PageText(PageResponses[r])]

\* the strategies of one attempt, in order: the API endpoints, then the pages
NumApis == 3
StratShare == NumApis + 1
StratEmbed == NumApis + 2

(***************************************************************************)
(* extractor/transcript_cleaner.py is not part of the sources at hand; the *)
(* cleaner is the normalizer of the specification (section 4.4), whose     *)
(* four steps are those of normalize_whitespace.                           *)
(***************************************************************************)
clean_transcript(raw) == normalize_whitespace(raw)

(***************************************************************************)
(* The state of a run of main()                                            *)
(***************************************************************************)
MaxItems == 2

\* concurrent_workers: one worker, or the default of four
DefaultWorkers == 4
WorkerChoices == {1, DefaultWorkers}

VARIABLES
  items,      \* parse_input(): for each item, its index in Inputs
  workers,    \* max_workers of the pool
  mainpc,     \* "start", "collect" (the as_completed loop), "exited"
  task,       \* per item: the state of its process_one future
  lastGet,    \* the GET issued by the step that led here (NoGet if it issued none)
  results,    \* main's results list
  errors,     \* main's errors list
  output,     \* what write_json wrote for the results; Unwritten before
  exitStatus, \* sys.exit's argument; -1 while the process runs
  only404,    \* the transport has answered 404 to every GET so far
  normIn,     \* the argument of the first normalize_whitespace call
  normOut,    \* what the latest normalize_whitespace call returned
  normCalls,  \* how many times normalize_whitespace was applied in a row
  callpc,     \* where a single call of a client function stands; "idle" without one
  callArg,    \* the argument of that call
  callRet,    \* what the call returned or raised
  queue,      \* _extract_text_from_json_blob: the nodes still to visit
  fragments,  \* _extract_text_from_json_blob: the fragments collected so far
  seen        \* _extract_text_from_json_blob: the nodes dequeued so far

mainVars ==
  <<items, workers, mainpc, task, lastGet, results, errors, output, exitStatus, only404>>
normVars == <<normIn, normOut, normCalls>>
callVars == <<callpc, callArg, callRet, queue, fragments, seen>>
vars == <<mainVars, normVars, callVars>>

\* no single call is under way
NoCall ==
  /\ callpc = "idle"
  /\ callArg = <<>>
  /\ callRet = [t |-> "none"]
  /\ queue = <<>>
  /\ fragments = <<>>
  /\ seen = 0

Tasks == 1..Len(items)

\* the first item's text, whatever the future
FirstItemText(i) == Inputs[items[1]]

\* future_map[fut]: the item a future was submitted for
ItemText(i) == Inputs[items[i]]

\* extract_video_id of each possible input, as a table computed once
InputId == [k \in 1..Len(Inputs) |-> extract_video_id(Inputs[k])]

NoOutcome == [t |-> "none"]
Success(vid, transcript) == [t |-> "ok", vid |-> vid, transcript |-> transcript]

\* a future before its task has started.  attempt, strat and fetched are the
\* locals of the running fetch_transcript_text call: tenacity's attempt number,
\* the strategy about to be tried, and the strategies this attempt has fetched
NewTask ==
  [st |-> "queued", vid |-> NoId, attempt |-> 0, strat |-> 0, fetched |-> <<>>,
   outcome |-> NoOutcome]

NoGet == [task |-> 0, attempt |-> 0, strat |-> 0, resp |-> 0]

\* no output file yet: an entry of no item, which no results list holds
Unwritten == <<[videoId |-> <<>>, transcript |-> <<>>, of |-> 0]>>

Init ==
  /\ \E n \in 0..MaxItems : items \in [1..n -> 1..Len(Inputs)]
  /\ workers \in WorkerChoices
  /\ mainpc = "start"
  /\ task = [i \in Tasks |-> NewTask]
  /\ lastGet = NoGet
  /\ results = <<>>
  /\ errors = <<>>
  /\ output = Unwritten
  /\ exitStatus = -1
  /\ only404 = TRUE
  /\ normIn = <<>>
  /\ normOut = <<>>
  /\ normCalls = 0
  /\ NoCall

(***************************************************************************)
(* main(), up to the submission of the futures (lines 100-109)             *)
(***************************************************************************)
ExitNoInputs == 1

\* "if not items: ... sys.exit(1)"
MainNoInputs ==
  /\ mainpc = "start"
  /\ Len(items) = 0
  /\ mainpc' = "exited"
  /\ exitStatus' = ExitNoInputs
  /\ lastGet' = NoGet
  /\ UNCHANGED <<items, workers, task, results, errors, output, only404, normVars, callVars>>

\* the pool is created and one future is submitted per item
MainSubmit ==
  /\ mainpc = "start"
  /\ Len(items) > 0
  /\ mainpc' = "collect"
  /\ lastGet' = NoGet
  /\ UNCHANGED <<items, workers, task, results, errors, output, exitStatus, only404,
               normVars, callVars>>

(***************************************************************************)
(* process_one, run by a pool worker                                       *)
(***************************************************************************)
Running == {i \in Tasks : task[i].st \in {"fetch", "backoff"}}

\* the raise of line 53
NoIdError(item) == Err("ValueError", MsgNoId \o <<APOS>> \o item \o <<APOS>>)

\* the future completes: the frames of process_one and of the client are gone
Completed(t, outcome) ==
  [t EXCEPT !.st = "done", !.outcome = outcome, !.attempt = 0, !.strat = 0,
            !.fetched = <<>>]

\* lines 51-55 of process_one, up to the call of fetch_transcript_text
Started(t, vid, item) ==
  IF ~Truthy(vid)
    THEN Completed(t, NoIdError(item))
    ELSE [t EXCEPT !.st = "fetch", !.vid = vid, !.attempt = 1, !.strat = 1]

\* a free worker takes the oldest queued future
TaskStart(i) ==
  /\ mainpc = "collect"
  /\ task[i].st = "queued"
  /\ \A j \in 1..(i - 1) : task[j].st # "queued"
  /\ Cardinality(Running) < workers
  /\ task' = [task EXCEPT ![i] = Started(@, InputId[items[i]], ItemText(i))]
  /\ lastGet' = NoGet
  /\ UNCHANGED <<items, workers, mainpc, results, errors, output, exitStatus, only404,
               normVars, callVars>>

\* a retry policy with no stop condition and no exception filter
AlwaysBackoff(t, e) == [t EXCEPT !.st = "backoff", !.strat = 0, !.fetched = <<>>]

\* an exception leaves fetch_transcript_text: tenacity sleeps and retries a
\* retryable one while attempts remain, and lets any other reach the future
AttemptFailed(t, e) ==
  IF Retryable(e.type) /\ t.attempt < MaxAttempts
    THEN [t EXCEPT !.st = "backoff", !.strat = 0, !.fetched = <<>>]
    ELSE Completed(t, e)

\* process_one without the test of line 58
CleanedAnyText(vid, cleaned) == Success(vid, cleaned)

\* lines 57-60 of process_one
Cleaned(vid, cleaned) ==
  IF Len(cleaned) = 0 THEN Err("LoomError", MsgEmpty) ELSE Success(vid, cleaned)

\* the raise of line 58 handed to the retry policy like one of the client
FoundRetrying(t, text) ==
  IF Cleaned(t.vid.v, clean_transcript(text.v)).t = "raise"
    THEN AttemptFailed(t, Cleaned(t.vid.v, clean_transcript(text.v)))
    ELSE Completed(t, Cleaned(t.vid.v, clean_transcript(text.v)))

\* fetch_transcript_text returns text: lines 55-60 of process_one
Found(t, text) == Completed(t, Cleaned(t.vid.v, clean_transcript(text.v)))

\* a loop that steps over every other strategy
SkipStrategy(strat) == strat + 2

\* the strategy after strat, when strat yielded nothing
NextStrategy(strat) == strat + 1

\* session.get: the exchange is issued and answered
Issue(i, r, resp) ==
  /\ lastGet' = [task |-> i, attempt |-> task[i].attempt, strat |-> task[i].strat,
                 resp |-> r]
  /\ only404' = (only404 /\ resp.kind = "http" /\ resp.status = 404)

Fetched(t) == [t EXCEPT !.fetched = Append(@, t.strat)]

\* lines 57-59 on what the endpoint yielded
AfterApi(t, text) ==
  IF text.t = "raise" THEN AttemptFailed(t, Err(text.v, <<>>))
  ELSE IF Truthy(text) THEN Found(t, text)
  ELSE [t EXCEPT !.strat = NextStrategy(t.strat)]

\* lines 63-66 on what the share page yielded
AfterShare(t, text) ==
  IF text.t = "raise" THEN AttemptFailed(t, text)
  ELSE IF Truthy(text) THEN Found(t, text)
  ELSE [t EXCEPT !.strat = NextStrategy(t.strat)]

\* lines 70-75 on what the embed page yielded
AfterEmbed(t, text) ==
  IF text.t = "raise" THEN AttemptFailed(t, text)
  ELSE IF Truthy(text) THEN Found(t, text)
  ELSE AttemptFailed(t, NotFoundError)

\* lines 56-59: one guessed API endpoint
ApiGet(i) ==
  /\ task[i].st = "fetch"
  /\ task[i].strat <= NumApis
  /\ \E r \in 1..Len(ApiResponses) :
       /\ Issue(i, r, ApiResponses[r])
       /\ task' = [task EXCEPT ![i] = AfterApi(Fetched(task[i]), ApiOutcome[r])]
  /\ UNCHANGED <<items, workers, mainpc, results, errors, output, exitStatus, normVars, callVars>>

\* lines 61-66: the share page
ShareGet(i) ==
  /\ task[i].st = "fetch"
  /\ task[i].strat = StratShare
  /\ \E r \in 1..Len(PageResponses) :
       /\ Issue(i, r, PageResponses[r])
       /\ task' = [task EXCEPT ![i] = AfterShare(Fetched(task[i]), PageOutcome[r])]
  /\ UNCHANGED <<items, workers, mainpc, results, errors, output, exitStatus, normVars, callVars>>

\* lines 68-75: the embed page, and the raise when it yields nothing
EmbedGet(i) ==
  /\ task[i].st = "fetch"
  /\ task[i].strat = StratEmbed
  /\ \E r \in 1..Len(PageResponses) :
       /\ Issue(i, r, PageResponses[r])
       /\ task' = [task EXCEPT ![i] = AfterEmbed(Fetched(task[i]), PageOutcome[r])]
  /\ UNCHANGED <<items, workers, mainpc, results, errors, output, exitStatus, normVars, callVars>>

\* a retry that does not count the attempt it begins
RetrySameAttempt(i) ==
  /\ task[i].st = "backoff"
  /\ task' = [task EXCEPT ![i] = [@ EXCEPT !.st = "fetch", !.strat = 1]]
  /\ lastGet' = NoGet
  /\ UNCHANGED <<items, workers, mainpc, results, errors, output, exitStatus, only404,
               normVars, callVars>>

\* the backoff sleep ends: the decorated function is called again from its top
Retry(i) ==
  /\ task[i].st = "backoff"
  /\ task' = [task EXCEPT ![i] = [@ EXCEPT !.st = "fetch", !.attempt = @ + 1,
                                           !.strat = 1]]
  /\ lastGet' = NoGet
  /\ UNCHANGED <<items, workers, mainpc, results, errors, output, exitStatus, only404,
               normVars, callVars>>

(***************************************************************************)
(* main(): the as_completed loop, the output and the exit (lines 110-135)  *)
(***************************************************************************)
\* lines 111-118 for one completed future
Collect(i) ==
  /\ mainpc = "collect"
  /\ task[i].st = "done"
  /\ task' = [task EXCEPT ![i].st = "collected"]
  /\ IF task[i].outcome.t = "ok"
       THEN /\ results' = Append(results, [videoId |-> task[i].outcome.vid,
                                           transcript |-> task[i].outcome.transcript,
                                           of |-> i])
            /\ UNCHANGED errors
       ELSE /\ errors' = Append(errors, [input |-> ItemText(i),
                                         error |-> task[i].outcome.msg,
                                         of |-> i])
            /\ UNCHANGED results
  /\ lastGet' = NoGet
  /\ UNCHANGED <<items, workers, mainpc, output, exitStatus, only404, normVars, callVars>>

ExitSome == 0
ExitNone == 2

\* sys.exit(0), whatever the results
ExitAlwaysSome(res) == ExitSome

\* sys.exit(0 if results else 2)
ExitCode(res) == IF Len(res) > 0 THEN ExitSome ELSE ExitNone

\* every future was collected: lines 120-135
MainFinish ==
  /\ mainpc = "collect"
  /\ \A i \in Tasks : task[i].st = "collected"
  /\ output' = results
  /\ exitStatus' = ExitCode(results)
  /\ mainpc' = "exited"
  /\ lastGet' = NoGet
  /\ UNCHANGED <<items, workers, task, results, errors, only404, normVars, callVars>>

Next ==
  \/ MainNoInputs
  \/ MainSubmit
  \/ \E i \in Tasks : TaskStart(i)
  \/ \E i \in Tasks : ApiGet(i)
  \/ \E i \in Tasks : ShareGet(i)
  \/ \E i \in Tasks : EmbedGet(i)
  \/ \E i \in Tasks : Retry(i)
  \/ \E i \in Tasks : Collect(i)
  \/ MainFinish

Spec == Init /\ [][Next]_vars

\* every request is answered within the session's timeout, a backoff sleep
\* ends, the pool gives a free worker to a queued future, and main's loop
\* goes on: a step that can be taken is taken in the end
FairSpec == Spec /\ WF_vars(Next)

(***************************************************************************)
(* normalize_whitespace on its own: a string is drawn, and the function is *)
(* applied to it and then to its own result                                *)
(***************************************************************************)
MaxLen == 5
MaxCalls == 2

NormAlphabet == {"a", SP, TAB, CR, LF}
NormExample == <<"a", CR, LF, CR, LF, CR, LF, "b">>
NormInputs == UNION {[1..n -> NormAlphabet] : n \in 0..MaxLen} \cup {NormExample}

InitNorm ==
  /\ items = <<>>
  /\ workers = DefaultWorkers
  /\ mainpc = "idle"
  /\ task = <<>>
  /\ lastGet = NoGet
  /\ results = <<>>
  /\ errors = <<>>
  /\ output = Unwritten
  /\ exitStatus = -1
  /\ only404 = TRUE
  /\ normIn \in NormInputs
  /\ normOut = <<>>
  /\ normCalls = 0
  /\ NoCall

Normalize ==
  /\ normCalls < MaxCalls
  /\ normOut' = normalize_whitespace(IF normCalls = 0 THEN normIn ELSE normOut)
  /\ normCalls' = normCalls + 1
  /\ UNCHANGED <<mainVars, normIn, callVars>>

NextNorm == Normalize

SpecNorm == InitNorm /\ [][NextNorm]_vars

(***************************************************************************)
(* A single call of one of the client's functions, on its own: no run of   *)
(* main() and no normalizer call is under way                              *)
(***************************************************************************)
NoRun ==
  /\ items = <<>>
  /\ workers = DefaultWorkers
  /\ mainpc = "idle"
  /\ task = <<>>
  /\ lastGet = NoGet
  /\ results = <<>>
  /\ errors = <<>>
  /\ output = Unwritten
  /\ exitStatus = -1
  /\ only404 = TRUE
  /\ normIn = <<>>
  /\ normOut = <<>>
  /\ normCalls = 0

\* c * n
Run(c, n) == [k \in 1..n |-> c]

(***************************************************************************)
(* _extract_text_from_json_blob on a parsed blob (lines 174-207)           *)
(***************************************************************************)
\* how many spaces may follow a text, and how long a list may be
MaxPad == 1
MaxElems == 2

TextSufficient ==
  <<"t","h","i","s",SP,"i","s",SP,"a",SP,"s","u","f","f","i","c","i","e","n","t","l","y",SP,"l","o","n","g",SP,"t","r","a","n","s","c","r","i","p","t",SP,"b","o","d","y",SP,"e","x","c","e","e","d","i","n","g",SP,"f","o","r","t","y",SP,"c","h","a","r","s">>
TextShort == <<"s","h","o","r","t">>
KeyFoo == <<"f","o","o">>
KeyX == <<"x">>

\* the lengths on both sides of the two thresholds
TextLens ==
  {0, 1, MinFragmentLen, MinFragmentLen + 1, MinTextLen, MinTextLen + 1}

\* the strings a blob may hold
BlobTexts ==
  {Run("a", n) \o Run(SP, p) : n \in TextLens, p \in 0..MaxPad}
    \cup {TextSufficient, TextShort}

\* the scalars a list of a blob may hold
BlobScalars == {JStr(s) : s \in BlobTexts} \cup {JNum(0), JNum(7), JBool(TRUE)}

BlobLists == UNION {[1..n -> BlobScalars] : n \in 0..MaxElems}

\* {"foo": {"transcript": S}}
FooTranscript(s) == JMap(<<<<KeyFoo, JMap(<<<<KeyTranscript, JStr(s)>>>>)>>>>)

\* {"x": S}
OnlyX(s) == JMap(<<<<KeyX, JStr(s)>>>>)

\* {"text": S1, "transcript": S2}
TextThenTranscript(s1, s2) ==
  JMap(<<<<KeyText, JStr(s1)>>, <<KeyTranscript, JStr(s2)>>>>)

\* {"captions": [...]}
CaptionsOf(xs) == JMap(<<<<KeyCaptions, JList(xs)>>>>)

\* {"transcript": {"text": S}}
TranscriptWithText(s) == JMap(<<<<KeyTranscript, JMap(<<<<KeyText, JStr(s)>>>>)>>>>)

\* {"x": [null, {"text": S}]}
MixedList(s) ==
  JMap(<<<<KeyX, JList(<<JNull, JMap(<<<<KeyText, JStr(s)>>>>)>>)>>>>)

\* a map holding the same child under each of the six priority keys
Wide(child) ==
  JMap(<<<<KeyTranscript, child>>, <<KeyCaptions, child>>, <<KeySubtitles, child>>,
         <<KeySrt, child>>, <<KeyVtt, child>>, <<KeyText, child>>>>)

\* [S, a map four levels deep and six keys wide]
DeepTree == JList(<<JStr(TextSufficient), Wide(Wide(Wide(Wide(JMap(<<>>)))))>>)

\* the blob after json.loads, about to be walked
WalkFrom(tree) ==
  /\ callpc = "walk"
  /\ callArg = tree
  /\ callRet = None
  /\ queue = <<>>
  /\ fragments = <<>>
  /\ seen = 0

InitBlob ==
  /\ NoRun
  /\ \/ \E s \in BlobTexts : WalkFrom(FooTranscript(s))
     \/ \E s \in BlobTexts : WalkFrom(OnlyX(s))
     \/ \E s1 \in BlobTexts, s2 \in BlobTexts : WalkFrom(TextThenTranscript(s1, s2))
     \/ \E xs \in BlobLists : WalkFrom(CaptionsOf(xs))
     \/ \E xs \in BlobLists : WalkFrom(JList(xs))
     \/ \E s \in BlobTexts : WalkFrom(TranscriptWithText(s))
     \/ \E s \in BlobTexts : WalkFrom(MixedList(s))
     \/ WalkFrom(DeepTree)

\* the locals of the call when the loop is over, and what line 207 returns
Walked(st) ==
  /\ queue' = st.q
  /\ fragments' = st.f
  /\ seen' = st.seen
  /\ callRet' = JoinedText(Strip(Join(st.f, <<LF>>)))

\* lines 174-207
BlobCall ==
  /\ callpc = "walk"
  /\ Walked(Walk(WalkStart(callArg), MaxVisited))
  /\ callpc' = "returned"
  /\ UNCHANGED <<mainVars, normVars, callArg>>

NextBlob == BlobCall

SpecBlob == InitBlob /\ [][NextBlob]_vars

\* the interpreter goes on running the loop and returns when it is over

(***************************************************************************)
(* The shape heuristics of _try_fetch_json_transcript on a parsed body     *)
(* (lines 87-119)                                                          *)
(***************************************************************************)
\* how long a list of captions may be
MaxCaptions == 2

TextHi == <<"h","e","l","l","o">>
TextWorld == <<"w","o","r","l","d">>

\* a member that a map does not have
Absent == [t |-> "absent"]

\* the member of a map under key, if it has one
Member(key, val) == IF val.t = "absent" THEN <<>> ELSE <<<<key, val>>>>

\* what an item may hold under "text" and under "caption"
TextFields == {Absent, JStr(<<>>), JStr(TextHi), JStr(<<SP>> \o TextHi), JNum(5)}
CaptionFields == {Absent, JStr(TextWorld), JStr(TextWorld \o <<SP>>)}

\* the items of a list of captions: maps, and values that are no maps
CaptionMaps ==
  {JMap(Member(KeyText, x) \o Member(KeyCaption, y)) :
     x \in TextFields, y \in CaptionFields}
CaptionItems == CaptionMaps \cup {JStr(TextHi), JNull}
CaptionLists == UNION {[1..n -> CaptionItems] : n \in 0..MaxCaptions}

\* what a body may hold under "transcript", "captions" and "data"
TranscriptFields == {Absent, JStr(TextHi), JStr(<<>>), JNum(1)}
CaptionsFields == {Absent, JStr(TextHi)} \cup {JList(xs) : xs \in CaptionLists}
DataFields ==
  {Absent, JStr(TextWorld), JMap(<<<<KeyTranscript, JStr(TextWorld)>>>>),
   JMap(<<<<KeyTranscript, JNum(2)>>>>)}

\* resp.json() returned data, and the heuristics are about to look at it
TypedFrom(parsed) ==
  /\ callpc = "typed"
  /\ callArg = parsed
  /\ callRet = None
  /\ queue = <<>>
  /\ fragments = <<>>
  /\ seen = 0

InitTyped ==
  /\ NoRun
  /\ \/ \E x \in TranscriptFields, y \in CaptionsFields, z \in DataFields :
          TypedFrom(JMap(Member(KeyTranscript, x) \o Member(KeyCaptions, y)
                           \o Member(KeyData, z)))
     \/ \E xs \in CaptionLists : TypedFrom(JList(xs))
     \/ \E x \in {JStr(TextHi), JNum(5), JNull} : TypedFrom(x)

\* lines 87-119
TypedCall ==
  /\ callpc = "typed"
  /\ callRet' = TypedTranscript(callArg)
  /\ callpc' = "returned"
  /\ UNCHANGED <<mainVars, normVars, callArg, queue, fragments, seen>>

NextTyped == TypedCall

SpecTyped == InitTyped /\ [][NextTyped]_vars

(***************************************************************************)
(* extract_video_id on its own                                             *)
(***************************************************************************)
\* how far from 32 the length of a run of hexadecimal characters may be
MaxSlack == 1

HexLower == <<"0","a","1","b","2","c","3","d","4","e","5","f","6","7","8","9">>
HexMixed == <<"0","A","1","b","2","C","3","d","4","E","5","f","6","7","8","9">>

\* n characters of a pattern, repeated as often as needed
Cycle(pattern, n) == [k \in 1..n |-> pattern[((k - 1) % Len(pattern)) + 1]]

\* the runs, and the same runs with a letter that is no hexadecimal digit
HexRuns ==
  {Cycle(pattern, n) :
     pattern \in {HexLower, HexMixed}, n \in (IdLen - MaxSlack)..(IdLen + MaxSlack)}
BrokenRuns == {[r EXCEPT ![IdLen \div 2] = "g"] : r \in HexRuns}

UrlShare == <<"l","o","o","m",".","c","o","m","/","s","h","a","r","e","/">>
UrlEmbed ==
  <<"h","t","t","p","s",":","/","/","w","w","w",".","l","o","o","m",".","c","o","m","/","e","m","b","e","d","/">>
UrlRecording ==
  <<"L","O","O","M",".","C","O","M","/","R","e","c","o","r","d","i","n","g","/">>
UrlWatch == <<"l","o","o","m",".","c","o","m","/","w","a","t","c","h","/">>

\* what may stand before and after the run
IdPrefixes ==
  {<<>>, UrlShare, UrlEmbed, UrlRecording, UrlWatch, <<"x">>, <<SP>>, <<"i","d","=">>}
IdSuffixes == {<<>>, <<"g">>, <<"/">>, <<SP>>, <<"_">>, <<"?","t","=","1">>}

IdInputs ==
  {p \o r \o q : p \in IdPrefixes, r \in HexRuns \cup BrokenRuns, q \in IdSuffixes}
    \cup {<<>>, <<SP>>, InJunk, InShareUpper, InRawId}

InitId ==
  /\ NoRun
  /\ callpc = "extract"
  /\ callArg \in IdInputs
  /\ callRet = None
  /\ queue = <<>>
  /\ fragments = <<>>
  /\ seen = 0

\* extract_video_id(item)
ExtractCall ==
  /\ callpc = "extract"
  /\ callRet' = extract_video_id(callArg)
  /\ callpc' = "returned"
  /\ UNCHANGED <<mainVars, normVars, callArg, queue, fragments, seen>>

NextId == ExtractCall

SpecId == InitId /\ [][NextId]_vars

(***************************************************************************)
(* Properties.  In a state reached by a GET, lastGet names the future that *)
(* issued it, the attempt and the strategy it belongs to and the answer.   *)
(***************************************************************************)
\* what the strategy of GET g made of the answer
Yield(g) == IF g.strat <= NumApis THEN ApiOutcome[g.resp] ELSE PageOutcome[g.resp]

\* the answer to GET g
Answer(g) == IF g.strat <= NumApis THEN ApiResponses[g.resp] ELSE PageResponses[g.resp]

\* "if text:" holds
IsText(x) == x.t = "str" /\ Len(x.v) > 0

\* the exception with which the attempt of GET g ends at that GET, if it does
Raised(g) ==
  IF Yield(g).t = "raise"
    THEN IF g.strat <= NumApis
           THEN [t |-> "raise", type |-> Yield(g).v, msg |-> <<>>]
           ELSE Yield(g)
  ELSE IF g.strat = NumApis + 2 /\ ~IsText(Yield(g))
    THEN [t |-> "raise", type |-> "LoomError", msg |-> MsgNotFound]
  ELSE [t |-> "none"]

Returned(t) == t.st \in {"done", "collected"}

\* C1: within one attempt the GETs go to API endpoint 1, 2, 3, the share page
\* and the embed page in that order, each only after all the earlier ones of
\* the attempt; the first strategy that yields non-empty text ends the call
\* with that text (cleaned by the caller), and a call that has returned issues
\* no further GET: when API endpoint 1 yields a transcript, endpoints 2 and 3
\* and both pages are never fetched.
C1_StrategyOrder ==
  [][\A i \in Tasks :
       /\ lastGet'.task = i =>
            /\ task[i].st = "fetch"
            /\ lastGet'.strat \in 1..(NumApis + 2)
            /\ lastGet'.strat = Len(task[i].fetched) + 1
            /\ \A k \in 1..Len(task[i].fetched) : task[i].fetched[k] = k
            /\ IsText(Yield(lastGet')) =>
                 /\ task'[i].st = "done"
                 /\ task'[i].outcome =
                      Cleaned(task[i].vid.v, clean_transcript(Yield(lastGet').v))
       /\ Returned(task[i]) =>
            /\ lastGet'.task # i
            /\ Returned(task'[i])
            /\ task'[i].outcome = task[i].outcome
    ]_vars

\* API endpoint 1 answered with a transcript and the call returned it
C1_Witness ==
  /\ lastGet.task # 0
  /\ lastGet.strat = 1
  /\ IsText(Yield(lastGet))
  /\ task[lastGet.task].st = "done"
  /\ task[lastGet.task].outcome.t = "ok"
  /\ task[lastGet.task].outcome.transcript = TextHello

\* C2: the discovery call of one item runs at most 3 attempts; an attempt is
\* followed by another only when it ended in a transport error
\* (RequestException) or in the not-found/unavailable error (LoomError); every
\* new attempt starts again at API endpoint 1 with nothing fetched; the error
\* that ends the third attempt is the outcome of the item, and main records
\* its message as that item's failure.
C2_RetryPolicy ==
  [][\A i \in Tasks :
       /\ task[i].attempt <= 3 /\ task'[i].attempt <= 3
       /\ (task'[i].st = "backoff" /\ task[i].st # "backoff") =>
            /\ lastGet'.task = i
            /\ Raised(lastGet').t = "raise"
            /\ Raised(lastGet').type \in {"RequestException", "LoomError"}
       /\ (task[i].st # "queued" /\ task'[i].attempt > task[i].attempt) =>
            /\ task[i].st = "backoff"
            /\ task'[i].attempt = task[i].attempt + 1
            /\ task'[i].st = "fetch"
            /\ task'[i].strat = 1
            /\ task'[i].fetched = <<>>
       /\ (lastGet'.task = i /\ lastGet'.attempt = 3 /\ Raised(lastGet').t = "raise") =>
            /\ task'[i].st = "done"
            /\ task'[i].outcome = Raised(lastGet')
       /\ (task[i].st = "done" /\ task'[i].st = "collected"
             /\ task[i].outcome.t = "raise") =>
            /\ Len(errors') = Len(errors) + 1
            /\ errors'[Len(errors')].input = Inputs[items[i]]
            /\ errors'[Len(errors')].error = task[i].outcome.msg
    ]_vars

\* the third attempt ended in a retryable error, which became the outcome
C2_Witness ==
  /\ lastGet.task # 0
  /\ lastGet.attempt = 3
  /\ Raised(lastGet).t = "raise"
  /\ Raised(lastGet).type \in {"RequestException", "LoomError"}
  /\ task[lastGet.task].st = "done"
  /\ task[lastGet.task].outcome = Raised(lastGet)

\* the answer is an HTTP answer with one of these statuses
HasStatus(resp, statuses) ==
  IF resp.kind = "http" THEN resp.status \in statuses ELSE FALSE

\* a network failure, or an HTTP error status other than 404
TransportFailure(resp) ==
  IF resp.kind = "http"
    THEN resp.status >= 400 /\ resp.status < 600 /\ resp.status # 404
    ELSE TRUE

\* C3: when the GET to a guessed API endpoint ends in an HTTP error other
\* than 404 or in a network failure, the attempt ends there in a retryable
\* transport failure: the call backs off for a new attempt or, on the last
\* attempt, the transport error becomes the outcome of the item.
C3_ApiErrorSurfaces ==
  \A i \in Tasks :
    (lastGet.task = i /\ lastGet.strat <= NumApis /\ TransportFailure(Answer(lastGet))) =>
       \/ task[i].st = "backoff"
       \/ /\ task[i].st = "done"
          /\ task[i].outcome.t = "raise"
          /\ task[i].outcome.type = "RequestException"

\* C4 as amended: when the share-page GET returns 401, 403 or 404 the attempt
\* ends at once with the error "Unavailable: <status>", and the embed page is
\* not fetched in that attempt; the error is retried like a transport error:
\* on attempts 1 and 2 the call backs off and its next GET is API endpoint 1
\* of the next attempt, on attempt 3 the error is the outcome of the item.
C4_ShareUnavailableRaises ==
  [][\A i \in Tasks :
       /\ (/\ lastGet'.task = i
           /\ lastGet'.strat = NumApis + 1
           /\ HasStatus(Answer(lastGet'), {401, 403, 404})) =>
            IF lastGet'.attempt < 3
              THEN task'[i].st = "backoff" /\ task'[i].attempt = lastGet'.attempt
              ELSE /\ task'[i].st = "done"
                   /\ task'[i].outcome.t = "raise"
                   /\ task'[i].outcome.type = "LoomError"
                   /\ task'[i].outcome.msg =
                        MsgUnavailable \o NatToChars(Answer(lastGet').status)
       /\ (task[i].st = "backoff" /\ lastGet'.task = i) =>
            /\ lastGet'.strat = 1
            /\ lastGet'.attempt = task[i].attempt + 1
       /\ task[i].st = "backoff" => task'[i].st \in {"backoff", "fetch"}
    ]_vars

\* the share page answered 403 and the attempt ended without the embed page
C4_Witness ==
  /\ lastGet.task # 0
  /\ lastGet.strat = NumApis + 1
  /\ HasStatus(Answer(lastGet), {403})
  /\ task[lastGet.task].st = "backoff"

\* C4 as stated: when the share-page GET returns 401, 403 or 404, the same
\* attempt goes on to the embed-page strategy.
C4_ShareUnavailableFallsThrough ==
  \A i \in Tasks :
    (/\ lastGet.task = i
     /\ lastGet.strat = NumApis + 1
     /\ HasStatus(Answer(lastGet), {401, 403, 404})) =>
       /\ task[i].st = "fetch"
       /\ task[i].strat = NumApis + 2
       /\ task[i].attempt = lastGet.attempt

\* "Unavailable: 404"
MsgUnavailable404 == MsgUnavailable \o <<"4", "0", "4">>

\* C5: a batch of one input with an extractable identifier, every GET of
\* which is answered 404, ends with no result, exactly one errors entry for
\* that input whose message is "Unavailable: 404", and exit status 2.
C5_AllNotFound ==
  (/\ mainpc = "exited"
   /\ only404
   /\ Len(items) = 1
   /\ InputId[items[1]].t = "str") =>
     /\ results = <<>>
     /\ output = <<>>
     /\ Len(errors) = 1
     /\ errors[1].input = Inputs[items[1]]
     /\ errors[1].error = MsgUnavailable404
     /\ exitStatus = 2

\* the run of one share URL ended after three attempts of 404s
C5_Witness ==
  /\ mainpc = "exited"
  /\ only404
  /\ items = <<1>>
  /\ Len(errors) = 1
  /\ exitStatus = 2

\* at least one item succeeded
SomeSucceeded == \E i \in Tasks : task[i].outcome.t = "ok"

EntriesOf(list, i) == {k \in 1..Len(list) : list[k].of = i}

\* C7: whatever the interleaving of the workers, a failure of any exception
\* type becomes one errors entry carrying the input string of the item that
\* failed and the exception's message, a success becomes one results entry,
\* no step of one item touches another item's future, main exits only after
\* every future was collected, and at the exit of a non-empty batch
\* len(results) + len(errors) is the number of items, one outcome per item.
C7_EveryItemOneOutcome ==
  /\ [](/\ \A k \in 1..Len(errors) :
             /\ errors[k].of \in Tasks
             /\ task[errors[k].of].st = "collected"
             /\ task[errors[k].of].outcome.t = "raise"
             /\ errors[k].error = task[errors[k].of].outcome.msg
             /\ errors[k].input = Inputs[items[errors[k].of]]
        /\ \A k \in 1..Len(results) :
             /\ results[k].of \in Tasks
             /\ task[results[k].of].st = "collected"
             /\ task[results[k].of].outcome.t = "ok"
             /\ results[k].videoId = task[results[k].of].outcome.vid
             /\ results[k].transcript = task[results[k].of].outcome.transcript
        /\ \A i \in Tasks :
             Cardinality(EntriesOf(results, i)) + Cardinality(EntriesOf(errors, i))
               = IF task[i].st = "collected" THEN 1 ELSE 0
        /\ (mainpc = "exited" /\ Len(items) > 0) =>
             /\ \A i \in Tasks : task[i].st = "collected"
             /\ Len(results) + Len(errors) = Len(items))
  /\ [][Cardinality({i \in Tasks : task'[i] # task[i]}) <= 1]_vars

\* of two items the first failed and the second succeeded after it
C7_Witness ==
  /\ mainpc = "exited"
  /\ Len(items) = 2
  /\ Len(errors) = 1
  /\ errors[1].of = 1
  /\ errors[1].input = Inputs[items[1]]
  /\ items[1] # items[2]
  /\ Len(results) = 1
  /\ results[1].of = 2

\* GET g went to the embed page, which yielded no text and raised nothing
Exhausted(g) ==
  /\ g.strat = NumApis + 2
  /\ Yield(g).t # "raise"
  /\ ~IsText(Yield(g))

\* C8 as amended: an attempt that exhausts all strategies fails with the
\* not-found error, and the retry policy retries that error like a transport
\* error: on attempts 1 and 2 the call backs off for another run of the whole
\* sequence; only when the third attempt fails with it is the error the
\* outcome of the item, after which no GET is ever issued for that item.
C8_NotFoundRetriedByPolicy ==
  [][\A i \in Tasks :
       /\ (lastGet'.task = i /\ Exhausted(lastGet')) =>
            IF lastGet'.attempt < 3
              THEN /\ task'[i].st = "backoff"
                   /\ task'[i].attempt = lastGet'.attempt
              ELSE /\ task'[i].st = "done"
                   /\ task'[i].outcome =
                        [t |-> "raise", type |-> "LoomError", msg |-> MsgNotFound]
       /\ (Returned(task[i]) /\ task[i].outcome.t = "raise") =>
            /\ lastGet'.task # i
            /\ task'[i].st \in {"done", "collected"}
    ]_vars

\* the first attempt exhausted all strategies and the call backs off
C8_Witness ==
  /\ lastGet.task # 0
  /\ lastGet.attempt = 1
  /\ Exhausted(lastGet)
  /\ task[lastGet.task].st = "backoff"

\* C8 as stated: the attempt that exhausts all strategies ends the call; the
\* sequence is not run again for the item.
C8_NotFoundNotRetried ==
  \A i \in Tasks :
    (lastGet.task = i /\ Exhausted(lastGet)) => task[i].st = "done"

\* the scripts of a page whose text mentions "transcript", in document order
MentionsTranscript(n) == n.tag = "script" /\ Contains(Lower(n.s), KeyTranscript)
TranscriptScripts(page) == SelectSeq(page, MentionsTranscript)

\* the first of them is a JSON object with a string member "transcript"
HasTranscriptMember(parsed) ==
  /\ parsed.ok
  /\ parsed.val.t = "map"
  /\ \E k \in 1..Len(parsed.val.v) :
       parsed.val.v[k][1] = KeyTranscript /\ parsed.val.v[k][2].t = "str"

TranscriptMember(parsed) ==
  parsed.val.v[CHOOSE k \in 1..Len(parsed.val.v) :
                 parsed.val.v[k][1] = KeyTranscript][2].v

SharePageObject(resp) == JsonLoads(TranscriptScripts(resp.body)[1].s)

\* the answer is a page whose first such script is a JSON object with a
\* string member "transcript" longer than 40 characters
OffersTranscript(resp) ==
  /\ HasStatus(resp, {200})
  /\ Len(TranscriptScripts(resp.body)) > 0
  /\ HasTranscriptMember(SharePageObject(resp))
  /\ Len(TranscriptMember(SharePageObject(resp))) > 40

\* and "transcript" is the only member, free of braces, and still longer
\* than 40 characters once trimmed
OffersOnlyTranscript(resp) ==
  /\ OffersTranscript(resp)
  /\ Len(SharePageObject(resp).val.v) = 1
  /\ \A k \in 1..Len(TranscriptMember(SharePageObject(resp))) :
       TranscriptMember(SharePageObject(resp))[k] \notin {"{", "}"}
  /\ Len(Strip(TranscriptMember(SharePageObject(resp)))) > 40

ShareIdLower ==
  <<"a","b","c","d","e","f","0","1","2","3","4","5","6","7","8","9",
    "a","b","c","d","e","f","0","1","2","3","4","5","6","7","8","9">>

\* the share-page GET of a future whose input is the share URL
ShareGetOf(g, i) == g.task = i /\ g.strat = NumApis + 1 /\ Inputs[items[i]] = InShareUpper

\* C9 as amended: for the share URL with a 32-hex identifier, when no API
\* endpoint yielded a transcript and the first script of the share page that
\* mentions "transcript" is a JSON object whose only member is a string
\* "transcript" without braces whose trimmed length exceeds 40, the call
\* returns at the share page with {videoId: the lowercased identifier,
\* transcript: that string normalized}; the embed page is never fetched for
\* the item; and a one-item batch whose item succeeded ends with exactly
\* that result, no errors entry and exit status 0.
C9_SharePageSuccess ==
  /\ [](\A i \in Tasks :
          (ShareGetOf(lastGet, i) /\ OffersOnlyTranscript(Answer(lastGet))) =>
             /\ task[i].st = "done"
             /\ task[i].outcome =
                  [t |-> "ok", vid |-> ShareIdLower,
                   transcript |->
                     normalize_whitespace(TranscriptMember(SharePageObject(Answer(lastGet))))])
  /\ []((mainpc = "exited" /\ Len(items) = 1 /\ task[1].outcome.t = "ok") =>
          /\ Len(results) = 1
          /\ results[1].videoId = task[1].outcome.vid
          /\ results[1].transcript = task[1].outcome.transcript
          /\ output = results
          /\ errors = <<>>
          /\ exitStatus = 0)
  /\ [][\A i \in Tasks :
          (Returned(task[i]) /\ task[i].outcome.t = "ok") =>
             /\ lastGet'.task # i
             /\ task'[i].outcome = task[i].outcome]_vars

\* the share page offered the transcript and the call returned it
C9_Witness ==
  /\ lastGet.task # 0
  /\ ShareGetOf(lastGet, lastGet.task)
  /\ OffersOnlyTranscript(Answer(lastGet))
  /\ task[lastGet.task].st = "done"
  /\ task[lastGet.task].outcome.t = "ok"
  /\ task[lastGet.task].outcome.transcript = TextHello

\* C9 as stated: when the first script of the share page that mentions
\* "transcript" holds a JSON object with a string member "transcript" longer
\* than 40 characters, the result is {videoId: the lowercased identifier,
\* transcript: that string normalized}.
C9_SharePageAnyTranscript ==
  \A i \in Tasks :
    (ShareGetOf(lastGet, i) /\ OffersTranscript(Answer(lastGet))) =>
       /\ task[i].st = "done"
       /\ task[i].outcome =
            [t |-> "ok", vid |-> ShareIdLower,
             transcript |->
               normalize_whitespace(TranscriptMember(SharePageObject(Answer(lastGet))))]

\* a space or a tab stands at neither end of a line of s
NoPaddedLine(s) ==
  \A k \in 1..Len(s) :
    s[k] \in {SP, TAB} =>
      /\ k > 1 /\ s[k - 1] # LF
      /\ k < Len(s) /\ s[k + 1] # LF

\* C10: normalize_whitespace is idempotent on the strings over a letter,
\* space, tab, CR and LF: applied to its own result it returns that result;
\* the result holds no CR, no line with leading or trailing whitespace and no
\* three consecutive newlines, and "a\r\n\r\n\r\nb" becomes "a\n\nb".
C10_NormalizeIdempotent ==
  normCalls >= 1 =>
    /\ normOut = normalize_whitespace(normIn)
    /\ normalize_whitespace(normOut) = normOut
    /\ \A k \in 1..Len(normOut) : normOut[k] # CR
    /\ NoPaddedLine(normOut)
    /\ \A k \in 1..(Len(normOut) - 2) :
         ~(normOut[k] = LF /\ normOut[k + 1] = LF /\ normOut[k + 2] = LF)
    /\ normIn = NormExample => normOut = <<"a", LF, LF, "b">>

\* the example, normalized twice
C10_Witness ==
  /\ normCalls = 2
  /\ normIn = NormExample
  /\ normOut = <<"a", LF, LF, "b">>

(***************************************************************************)
(* Properties of the shape heuristics (SpecTyped)                          *)
(***************************************************************************)
\* item c holds a non-empty string under key
OffersString(c, key) ==
  /\ MapHas(c, key)
  /\ MapGet(c, key).t = "str"
  /\ Len(MapGet(c, key).v) > 0

\* a map all of whose "text" and "caption" members are strings
IsCaptionMap(c) ==
  /\ c.t = "map"
  /\ \A k \in 1..Len(c.v) : c.v[k][2].t = "str"

\* the item's "text" or, when that is absent or empty, its "caption"
OfferedText(c) ==
  IF OffersString(c, KeyText) THEN MapGet(c, KeyText).v
  ELSE IF OffersString(c, KeyCaption) THEN MapGet(c, KeyCaption).v
  ELSE <<>>

NonEmpty(s) == Len(s) > 0

\* the strings the items offer, in list order, empty ones skipped
OfferedTexts(xs) == SelectSeq([k \in 1..Len(xs) |-> OfferedText(xs[k])], NonEmpty)

HasStringTranscript(d) ==
  d.t = "map" /\ MapHas(d, KeyTranscript) /\ MapGet(d, KeyTranscript).t = "str"

HasCaptionsList(d) ==
  d.t = "map" /\ MapHas(d, KeyCaptions) /\ MapGet(d, KeyCaptions).t = "list"

\* a map without a string "transcript" whose "captions" is a list of maps
CaptionsShape(d) ==
  /\ ~HasStringTranscript(d)
  /\ HasCaptionsList(d)
  /\ \A k \in 1..Len(MapGet(d, KeyCaptions).v) : IsCaptionMap(MapGet(d, KeyCaptions).v[k])

\* {"captions": [{"text": "hello"}, {"caption": "world"}]}
CaptionsExample ==
  JMap(<<<<KeyCaptions,
           JList(<<JMap(<<<<KeyText, JStr(TextHi)>>>>),
                   JMap(<<<<KeyCaption, JStr(TextWorld)>>>>)>>)>>>>)

HelloWorld == TextHi \o <<LF>> \o TextWorld

\* C11 as amended: for a map without a string "transcript" whose "captions"
\* is a list of maps with string fields, the typed path returns the items'
\* "text" (or, when "text" is absent or empty, "caption") strings, empty ones
\* skipped, in list order, joined by a newline and then trimmed of leading
\* and trailing whitespace, and none when no item offers a string; the
\* example {"captions":[{"text":"hello"},{"caption":"world"}]} yields
\* "hello\nworld".
C11_CaptionsJoinedTrimmed ==
  (callpc = "returned" /\ CaptionsShape(callArg)) =>
     /\ callRet =
          IF OfferedTexts(MapGet(callArg, KeyCaptions).v) = <<>> THEN None
          ELSE JStr(Strip(Join(OfferedTexts(MapGet(callArg, KeyCaptions).v), <<LF>>)))
     /\ callArg = CaptionsExample => callRet = JStr(HelloWorld)

\* the example was interpreted
C11_Witness ==
  /\ callpc = "returned"
  /\ callArg = CaptionsExample
  /\ CaptionsShape(callArg)
  /\ callRet = JStr(HelloWorld)

\* C11 as stated: the result is the offered strings joined by a newline (none
\* when there is no string to join).
C11_CaptionsJoined ==
  (callpc = "returned" /\ CaptionsShape(callArg)) =>
     callRet =
       IF OfferedTexts(MapGet(callArg, KeyCaptions).v) = <<>> THEN None
       ELSE JStr(Join(OfferedTexts(MapGet(callArg, KeyCaptions).v), <<LF>>))

(***************************************************************************)
(* Properties of the free-text blob path (SpecBlob)                        *)
(***************************************************************************)
\* <<s>> when s is longer than the fragment threshold of 20, else nothing
LongOnly(s) == IF Len(s) > 20 THEN <<s>> ELSE <<>>

\* the text of a scalar that is not blank
IsNonBlank(x) == Len(Strip(PyStr(x))) > 0
NonBlankTexts(xs) ==
  LET kept == SelectSeq(xs, IsNonBlank) IN [k \in 1..Len(kept) |-> PyStr(kept[k])]

\* the fragments joined by newlines
JoinedFragments == Join(fragments, <<LF>>)

\* C12 as amended: the blob path joins the fragments with newlines in
\* discovery order (the priority keys of a map in their fixed order, the
\* items of a list in list order), trims the joined text, and returns the
\* trimmed text only if it is longer than 40 characters, and none otherwise;
\* so {"foo":{"transcript": S}} returns S trimmed when S trimmed is longer
\* than 40 characters and none otherwise, the example of the specification
\* returns its string, and {"x": S} returns none whatever S.
C12_BlobThresholdTrimmed ==
  callpc = "returned" =>
    /\ callRet = IF Len(Strip(JoinedFragments)) > 40
                   THEN JStr(Strip(JoinedFragments)) ELSE None
    /\ \A s \in BlobTexts :
         /\ callArg = FooTranscript(s) =>
              /\ fragments = LongOnly(s)
              /\ callRet = IF Len(Strip(s)) > 40 THEN JStr(Strip(s)) ELSE None
         /\ callArg = OnlyX(s) => (fragments = <<>> /\ callRet = None)
         /\ \A s2 \in BlobTexts :
              callArg = TextThenTranscript(s, s2) => fragments = LongOnly(s2) \o LongOnly(s)
    /\ callArg = FooTranscript(TextSufficient) => callRet = JStr(TextSufficient)
    /\ callArg = OnlyX(TextShort) => callRet = None
    /\ \A xs \in BlobLists : callArg = JList(xs) => fragments = NonBlankTexts(xs)

\* the example blob returned its string
C12_Witness ==
  /\ callpc = "returned"
  /\ callArg = FooTranscript(TextSufficient)
  /\ fragments = <<TextSufficient>>
  /\ callRet = JStr(TextSufficient)

\* C12 as stated: the joined fragments are returned when the trimmed joined
\* text is longer than 40 characters, and {"foo":{"transcript": S}} with S
\* longer than 40 characters returns exactly S.
C12_BlobThreshold ==
  callpc = "returned" =>
    /\ callRet = IF Len(Strip(JoinedFragments)) > 40 THEN JStr(JoinedFragments) ELSE None
    /\ \A s \in BlobTexts :
         (callArg = FooTranscript(s) /\ Len(s) > 40) => callRet = JStr(s)
    /\ callArg = OnlyX(TextShort) => callRet = None

(***************************************************************************)
(* Properties of extract_video_id (SpecId)                                 *)
(***************************************************************************)
AnyCaseHex == HexDigits \cup {"A", "B", "C", "D", "E", "F"}

\* s holds 32 consecutive hexadecimal characters somewhere
HasHexToken(s) ==
  \E i \in 1..(Len(s) - 31) : \A k \in 0..31 : s[i + k] \in AnyCaseHex

\* C13: extract_video_id returns none for every string that holds no 32
\* consecutive hexadecimal characters anywhere, and whenever it returns a
\* value, that value is exactly 32 characters long, all of them lowercase
\* hexadecimal digits.
C13_IdShape ==
  callpc = "returned" =>
    /\ ~HasHexToken(callArg) => callRet = [t |-> "none"]
    /\ callRet.t \in {"none", "str"}
    /\ callRet.t = "str" =>
         /\ Len(callRet.v) = 32
         /\ \A k \in 1..Len(callRet.v) : callRet.v[k] \in HexDigits

\* a share URL with 31 hexadecimal characters yielded none
C13_Witness ==
  /\ callpc = "returned"
  /\ callArg = UrlShare \o Cycle(HexMixed, 31)
  /\ ~HasHexToken(callArg)
  /\ callRet = [t |-> "none"]

(***************************************************************************)
(* Further properties of a run of main() (Spec)                            *)
(***************************************************************************)
EmptyAfterCleaning == [t |-> "raise", type |-> "LoomError", msg |-> MsgEmpty]

\* GET g yielded text that the cleaner reduces to nothing
YieldsBlank(g) == IsText(Yield(g)) /\ Len(clean_transcript(Yield(g).v)) = 0

\* C14: when a strategy yields a raw transcript that normalizes to the empty
\* string, the item ends at once, on whatever attempt, as a failure whose
\* message is "Transcript extracted but empty after cleaning.", which is not
\* the not-found message; no further GET is issued for the item and no new
\* attempt is made, although the error is a LoomError, a type the retry
\* policy retries; main records the message in the item's errors entry.
C14_EmptyNotRetried ==
  [][\A i \in Tasks :
       /\ (lastGet'.task = i /\ YieldsBlank(lastGet')) =>
            /\ task'[i].st = "done"
            /\ task'[i].outcome = EmptyAfterCleaning
            /\ task'[i].outcome.msg # MsgNotFound
            /\ Retryable(task'[i].outcome.type)
       /\ (Returned(task[i]) /\ task[i].outcome = EmptyAfterCleaning) =>
            /\ lastGet'.task # i
            /\ Returned(task'[i])
            /\ task'[i].outcome = task[i].outcome
            /\ task'[i].st = "collected" /\ task[i].st = "done" =>
                 /\ errors'[Len(errors')].of = i
                 /\ errors'[Len(errors')].error = MsgEmpty
    ]_vars

\* the first attempt found a blank transcript and the item failed there
C14_Witness ==
  /\ lastGet.task # 0
  /\ lastGet.attempt = 1
  /\ YieldsBlank(lastGet)
  /\ task[lastGet.task].st = "done"
  /\ task[lastGet.task].outcome = EmptyAfterCleaning

(***************************************************************************)
(* Further properties of the shape heuristics (SpecTyped)                  *)
(***************************************************************************)
\* a map whose "captions", when a list, holds only maps with string fields
WellFormedBody(d) ==
  /\ d.t = "map"
  /\ HasCaptionsList(d) =>
       \A k \in 1..Len(MapGet(d, KeyCaptions).v) : IsCaptionMap(MapGet(d, KeyCaptions).v[k])

\* a map with a map under "data" that holds a string "transcript"
HasNestedTranscript(d) ==
  /\ d.t = "map"
  /\ MapHas(d, KeyData)
  /\ HasStringTranscript(MapGet(d, KeyData))

\* the text each heuristic finds, empty when its shape is not there
TextOfTranscript(d) == IF HasStringTranscript(d) THEN MapGet(d, KeyTranscript).v ELSE <<>>
TextOfCaptions(d) ==
  IF HasCaptionsList(d)
    THEN Strip(Join(OfferedTexts(MapGet(d, KeyCaptions).v), <<LF>>)) ELSE <<>>
TextOfNested(d) ==
  IF HasNestedTranscript(d) THEN MapGet(MapGet(d, KeyData), KeyTranscript).v ELSE <<>>

\* the text of the first heuristic, in the order (a), (b), (c), that finds some
FirstNonEmptyText(d) ==
  IF TextOfTranscript(d) # <<>> THEN TextOfTranscript(d)
  ELSE IF TextOfCaptions(d) # <<>> THEN TextOfCaptions(d)
  ELSE TextOfNested(d)

\* {"captions": [], "data": {"transcript": "world"}}
EmptyCaptionsWithNested ==
  JMap(<<<<KeyCaptions, JList(<<>>)>>,
         <<KeyData, JMap(<<<<KeyTranscript, JStr(TextWorld)>>>>)>>>>)

\* C15 as amended: the heuristics (a) string "transcript", (b) list
\* "captions", (c) string "transcript" under a "data" map are tried in that
\* order and the first whose shape matches decides the result, whatever its
\* text: a string "transcript" is returned even when empty; otherwise a
\* "captions" list yields its joined fragments, or none when it has none,
\* and the "data" map is not looked at; only a map with neither returns the
\* nested transcript, and none when there is none.  A map whose "captions"
\* list yields no fragments and whose "data" map holds a string "transcript"
\* returns none.
C15_FirstMatchDecides ==
  (callpc = "returned" /\ WellFormedBody(callArg)) =>
     /\ callRet =
          IF HasStringTranscript(callArg) THEN JStr(TextOfTranscript(callArg))
          ELSE IF HasCaptionsList(callArg)
            THEN IF OfferedTexts(MapGet(callArg, KeyCaptions).v) = <<>> THEN None
                 ELSE JStr(TextOfCaptions(callArg))
          ELSE IF HasNestedTranscript(callArg) THEN JStr(TextOfNested(callArg))
          ELSE None
     /\ callArg = EmptyCaptionsWithNested => callRet = None

\* an empty captions list hid the nested transcript
C15_Witness ==
  /\ callpc = "returned"
  /\ callArg = EmptyCaptionsWithNested
  /\ HasNestedTranscript(callArg)
  /\ callRet = None

\* C15 as stated: the result is the text of the first heuristic that matches
\* with non-empty text, and none is returned only when there is no such
\* heuristic; an empty captions list falls through to the nested transcript.
C15_FirstNonEmptyWins ==
  (callpc = "returned" /\ WellFormedBody(callArg)) =>
     /\ FirstNonEmptyText(callArg) # <<>> => callRet = JStr(FirstNonEmptyText(callArg))
     /\ FirstNonEmptyText(callArg) = <<>> => ~IsText(callRet)

(***************************************************************************)
(* Further properties of the free-text blob path (SpecBlob)                *)
(***************************************************************************)
IsContainer(x) == x.t \in {"map", "list"}

\* the values held by a map or a list
ChildrenOf(x) ==
  IF x.t = "map" THEN [k \in 1..Len(x.v) |-> x.v[k][2]]
  ELSE IF x.t = "list" THEN x.v
  ELSE <<>>

\* how many strings and other scalars a tree holds, and how many nodes
RECURSIVE ScalarsIn(_), ScalarsFrom(_, _), NodesIn(_), NodesFrom(_, _)
ScalarsFrom(xs, k) ==
  IF k > Len(xs) THEN 0 ELSE ScalarsIn(xs[k]) + ScalarsFrom(xs, k + 1)
ScalarsIn(x) == IF IsContainer(x) THEN ScalarsFrom(ChildrenOf(x), 1) ELSE 1
NodesFrom(xs, k) ==
  IF k > Len(xs) THEN 0 ELSE NodesIn(xs[k]) + NodesFrom(xs, k + 1)
NodesIn(x) == 1 + NodesFrom(ChildrenOf(x), 1)

\* C16: the walk enqueues each node of the tree at most once, so that it
\* dequeues no more nodes than the tree has, and every string or scalar of
\* the tree contributes at most one fragment: the call returns with no more
\* fragments than the tree has strings and scalars.
C16_EnqueuedOnce ==
  callpc = "returned" =>
    /\ Len(fragments) <= ScalarsIn(callArg)
    /\ seen <= NodesIn(callArg)

\* the while loop of lines 182-203 has been left
LoopEnded(st) == ~LoopGoesOn(st, MaxVisited) /\ st.seen <= MaxVisited

\* C17: the walk terminates on every parsed tree: from every tree the loop
\* is left after at most 20,000 turns; the visit counter never
\* exceeds 20,000; the loop ends when the queue is empty
\* or when 20,000 nodes were dequeued, and in both cases the fragments
\* collected so far are joined, trimmed and held to the 40-character
\* threshold.
C17_WalkBounded ==
  /\ seen <= 20000
  /\ callpc = "walk" => LoopEnded(Walk(WalkStart(callArg), MaxVisited))
  /\ callpc = "returned" =>
       /\ Len(queue) = 0 \/ seen = 20000
       /\ callRet = IF Len(Strip(JoinedFragments)) > 40
                      THEN JStr(Strip(JoinedFragments)) ELSE None

\* the walk of the deep tree stopped at 20,000 nodes with nodes left in the
\* queue, and returned the one fragment it had collected
C17_Witness ==
  /\ callpc = "returned"
  /\ callArg = DeepTree
  /\ seen = 20000
  /\ Len(queue) > 0
  /\ fragments = <<TextSufficient>>
  /\ callRet = JStr(TextSufficient)

\* the place of GET g among the 15 GETs an item may issue: 5 per attempt
GetNumber(g) == 5 * (g.attempt - 1) + g.strat

\* the GETs a running task has used up: all 5 of an attempt that has failed
Spent(t) ==
  IF t.st = "backoff" THEN 5 * t.attempt
  ELSE IF t.st = "fetch" THEN 5 * (t.attempt - 1) + Len(t.fetched)
  ELSE 0

IsRunning(t) == t.st \in {"fetch", "backoff"}

\* each GET of an item has a greater number than the GETs the item has used
\* up, and uses up the GETs up to its own; no other step gives GETs back
GetsInOrder ==
  \A i \in Tasks :
    /\ lastGet'.task = i =>
         /\ Spent(task[i]) < GetNumber(lastGet')
         /\ GetNumber(lastGet') <= 15
         /\ IsRunning(task'[i]) => GetNumber(lastGet') <= Spent(task'[i])
    /\ (lastGet'.task # i /\ IsRunning(task[i]) /\ IsRunning(task'[i])) =>
         Spent(task[i]) <= Spent(task'[i])

\* every started task returns, by success or failure, after attempts
\* numbered 1 to 3 of at most 5 GETs each, numbered in increasing order
\* within 1..15
TasksComplete ==
  /\ \A i \in 1..MaxItems :
       (i \in Tasks /\ IsRunning(task[i])) ~> (i \in Tasks /\ Returned(task[i]))
  /\ [](\A i \in Tasks : task[i].attempt <= 3 /\ Len(task[i].fetched) <= 5)
  /\ [](lastGet # NoGet => lastGet.attempt \in 1..3 /\ lastGet.strat \in 1..5)
  /\ [][GetsInOrder]_vars

IsLowerHexId(vid) == Len(vid) = 32 /\ \A k \in 1..Len(vid) : vid[k] \in HexDigits

\* the items of which main has appended a results entry, an errors entry
ResultOrigins == {results[k].of : k \in 1..Len(results)}
ErrorOrigins == {errors[k].of : k \in 1..Len(errors)}

\* C19: in every reachable state of a run, each entry of the results list
\* has a videoId of exactly 32 lowercase hexadecimal characters and a
\* non-empty transcript, and no input item is the origin both of a results
\* entry and of an errors entry.
C19_ResultsWellFormed ==
  /\ \A k \in 1..Len(results) :
       /\ IsLowerHexId(results[k].videoId)
       /\ Len(results[k].transcript) > 0
  /\ ResultOrigins \cap ErrorOrigins = {}

\* a share URL written in upper case gave a results entry with the
\* lowercase id, while the other item of the run gave an errors entry
C19_Witness ==
  /\ Len(results) = 1
  /\ Len(errors) = 1
  /\ ItemText(results[1].of) = InShareUpper
  /\ results[1].videoId = ShareIdLower
  /\ results[1].of # errors[1].of

\* C20: the typed JSON path is total over JSON values: on every parsed
\* body, a "captions" list of strings, numbers or nulls included, the shape
\* heuristics return a string or none and raise nothing.
C20_TypedPathTotal ==
  callpc = "returned" => callRet.t \in {"str", "none"}

====
